---- MODULE Spec2Model ----
(***************************************************************************)
(* A model of the format-conversion engine of ddsd: the decode entry       *)
(* points (SupportedFormat::decode / decode_rect, DecoderSet::decode /     *)
(* decode_rect, Args::new / RArgs::new), the streaming read loop           *)
(* (for_each_pixel / ReadBuffer), the memory budget (DecodeContext), the   *)
(* channel adapter and the numeric conversion kernels.                     *)
(*                                                                         *)
(* Machine words are modelled with reduced widths: a u32 has U32Bits bits  *)
(* and a u64 / usize (64-bit target) has 2 * U32Bits bits, so that the     *)
(* relations between the widths that the code relies on (a product of two  *)
(* u32 fits a u64, a u32 times a bytes-per-pixel fits a usize) are kept.   *)
(***************************************************************************)
EXTENDS Integers, Sequences, FiniteSets, TLC

VARIABLES
    pc,            \* position of the current decode call
    call,          \* the arguments of the current call
    result,        \* the value the call returned
    pos,           \* reader: bytes consumed since the call started
    reads,         \* reader: number of read_exact calls issued
    pixels_left,   \* ReadBuffer.pixels_left
    buf_pixels,    \* ReadBuffer.buf_pixels
    outLeft,       \* bytes of the output not yet handed out by chunks_mut
    refill,        \* the last refill: pixels_left before it, pixels read, pixels of the paired chunk
    memory_limit,  \* DecodeContext.memory_limit
    memLog,        \* the initial limit, the total granted, the last request and its outcome
    adp,           \* UncompressedAdapter: its arguments, the staging buffer, the output
    kin,           \* kernel input bit pattern
    kout,          \* kernel outputs
    enc,           \* one encode call: its arguments, the staging buffer, the writer
    hdr,           \* one header resolution: the header, the options, the outcome
    dset,          \* one DecoderSet: its decoders, the request, the decoder selected
    skip,          \* one io_skip_exact call: the reader, the count, the outcome
    elist          \* one encoder list: its encoders, the color, the encoder selected

dvars == <<pc, call, result, pos, reads, pixels_left, buf_pixels, outLeft, refill>>
mvars == <<memory_limit, memLog>>
avars == <<adp>>
kvars == <<kin, kout>>
evars == <<enc>>
hvars == <<hdr>>
svars == <<dset, skip, elist>>
vars == <<dvars, mvars, avars, kvars, evars, hvars, svars>>

Min(a, b) == IF a < b THEN a ELSE b
Max(a, b) == IF a > b THEN a ELSE b

RECURSIVE Pow2(_)
Pow2(n) == IF n <= 0 THEN 1 ELSE 2 * Pow2(n - 1)

----------------------------------------------------------------------------
(* Machine words *)

U32Bits == 9
U32Max == Pow2(U32Bits) - 1
U64Max == Pow2(2 * U32Bits) - 1
UsizeMax == U64Max
\* A slice never holds more than isize::MAX bytes.
IsizeMax == Pow2(2 * U32Bits - 1) - 1

\* a as u64 * b as u64
MulU64(a, b) == (a * b) % (U64Max + 1)
\* u64::saturating_mul / usize::saturating_mul
SaturatingMul(a, b) == IF b # 0 /\ a > U64Max \div b THEN U64Max ELSE a * b
\* a as u64 + b as u64
AddU32(a, b) == (a + b) % (U32Max + 1)
AddU64(a, b) == (a + b) % (U64Max + 1)
\* usize subtraction
SubUsize(a, b) == (a - b) % (UsizeMax + 1)

----------------------------------------------------------------------------
(* format.rs: Channels, Precision, ColorFormat, Size, Rect *)

Channels == {"Grayscale", "Alpha", "Rgb", "Rgba"}
Precisions == {"U8", "U16", "F32"}

ChannelCount(c) == CASE c = "Grayscale" -> 1 [] c = "Alpha" -> 1 [] c = "Rgb" -> 3 [] c = "Rgba" -> 4
PrecisionSize(p) == CASE p = "U8" -> 1 [] p = "U16" -> 2 [] p = "F32" -> 4

ColorFormats == [channels : Channels, precision : Precisions]
BytesPerPixel(color) == ChannelCount(color.channels) * PrecisionSize(color.precision)

SizeIsEmpty(size) == size.width = 0 \/ size.height = 0
SizePixels(size) == MulU64(size.width, size.height)

RectSize(rect) == [width |-> rect.width, height |-> rect.height]
\* The bounds check with the sums taken in u32 (wrapping).
IsWithinBoundsU32(rect, size) ==
    /\ AddU32(rect.x, rect.width) <= size.width
    /\ AddU32(rect.y, rect.height) <= size.height
IsWithinBounds(rect, size) ==
    LET end_x == AddU64(rect.x, rect.width)
        end_y == AddU64(rect.y, rect.height)
    IN  end_x <= size.width /\ end_y <= size.height

\* SupportedFormat::supports
Supports(fmt, color) ==
    color.channels \in fmt.channels /\ color.precision \in fmt.precisions

----------------------------------------------------------------------------
(* decode/decoder.rs: Args::new, RArgs::new *)

Res(kind, val) == [kind |-> kind, val |-> val]
Ok == Res("Ok", 0)
NoResult == Res("none", 0)
IsError(r) == r.kind \notin {"Ok", "none"}

\* The required length with a wrapping product.
RequiredBytesWrapping(size, color) ==
    (SizePixels(size) * BytesPerPixel(color)) % (U64Max + 1)
\* required_bytes of Args::new
RequiredBytes(size, color) ==
    LET p == SaturatingMul(SizePixels(size), BytesPerPixel(color))
    IN  IF p > UsizeMax THEN UsizeMax ELSE p

\* Args::new: the error, or Ok when the arguments are accepted
ArgsNew(size, color, outLen) ==
    LET required_bytes == RequiredBytes(size, color)
    IN  IF outLen # required_bytes
        THEN Res("UnexpectedBufferSize", required_bytes)
        ELSE Ok

\* min_row_pitch of RArgs::new
MinRowPitch(rect, color) == SaturatingMul(rect.width, BytesPerPixel(color))
\* required_bytes of RArgs::new
RectRequiredBytes(row_pitch, rect) == SaturatingMul(row_pitch, rect.height)

\* RArgs::new with the row pitch checked before the bounds of the rect.
RArgsNewPitchFirst(size, color, rect, row_pitch, outLen) ==
    IF row_pitch < MinRowPitch(rect, color)
    THEN Res("RowPitchTooSmall", MinRowPitch(rect, color))
    ELSE IF ~IsWithinBounds(rect, size)
    THEN Res("RectOutOfBounds", 0)
    ELSE IF outLen < RectRequiredBytes(row_pitch, rect)
    THEN Res("RectBufferTooSmall", RectRequiredBytes(row_pitch, rect))
    ELSE Ok
\* RArgs::new: the error, or Ok when the arguments are accepted
RArgsNew(size, color, rect, row_pitch, outLen) ==
    IF ~IsWithinBounds(rect, size)
    THEN Res("RectOutOfBounds", 0)
    ELSE IF row_pitch < MinRowPitch(rect, color)
    THEN Res("RowPitchTooSmall", MinRowPitch(rect, color))
    ELSE IF outLen < RectRequiredBytes(row_pitch, rect)
    THEN Res("RectBufferTooSmall", RectRequiredBytes(row_pitch, rect))
    ELSE Ok

----------------------------------------------------------------------------
(* decode/util.rs: ReadBuffer, for_each_pixel *)

\* ReadBuffer::TARGET
TARGET == 65536

\* buf_pixels without the cap by the number of pixels.
ReadBufferPixelsUncapped(bytes_per_pixel, pixels) == TARGET \div bytes_per_pixel
\* buf_pixels of ReadBuffer::new
ReadBufferPixels(bytes_per_pixel, pixels) ==
    Min(TARGET \div bytes_per_pixel, pixels)

\* pixels_to_read without the cap by pixels_left.
PixelsToReadUncapped(bufPixels, pixelsLeft) == bufPixels
\* pixels_to_read of ReadBuffer::read
PixelsToRead(bufPixels, pixelsLeft) == Min(bufPixels, pixelsLeft)

----------------------------------------------------------------------------
(* The inputs of a call *)

\* Image and rect dimensions tried: empty, small, several read buffers, the largest u32.
Dims == {0, 1, 3, 70, U32Max}
RectDims == {0, 1, U32Max}
Sizes == [width : Dims, height : Dims]
RectSizes == [width : {0, 1, 3, U32Max}, height : {0, 1, 3, U32Max}]
Rects == [x : RectDims, y : RectDims, width : RectDims, height : RectDims]
NoRect == [x |-> 0, y |-> 0, width |-> 0, height |-> 0]

\* Format descriptors: the encoded pixel size in bytes and the colors supported.
Formats ==
    { [encoded_size |-> 1, channels |-> Channels, precisions |-> Precisions],
      [encoded_size |-> 3, channels |-> Channels, precisions |-> Precisions],
      [encoded_size |-> 16, channels |-> Channels, precisions |-> Precisions],
      [encoded_size |-> 2, channels |-> {"Rgb", "Rgba"}, precisions |-> {"U8", "U16"}] }
RectFormats == {f \in Formats : f.encoded_size \in {2, 16}}

\* Output lengths around the exact product, within what a slice can hold.
OutLens(exact) == {n \in {0, exact - 1, exact, exact + 1, IsizeMax} : 0 <= n /\ n <= IsizeMax}
\* Reader lengths: empty, one read buffer, one byte short, exact, longer.
Rlens(fmt, size) ==
    LET p == size.width * size.height
        needed == p * fmt.encoded_size
    IN  {n \in {0, fmt.encoded_size * Min(p, TARGET \div fmt.encoded_size),
                needed - 1, needed, needed + 2} : n >= 0}
RowPitches(exact) == {n \in {0, exact - 1, exact, exact + 1, IsizeMax} : 0 <= n /\ n <= IsizeMax}

NoRefill == [before |-> 0, read |-> 0, chunk |-> 0]
NoFormat == [encoded_size |-> 1, channels |-> Channels, precisions |-> Precisions]
NoCall ==
    [op |-> "none", fmt |-> NoFormat, color |-> [channels |-> "Grayscale", precision |-> "U8"],
     size |-> [width |-> 0, height |-> 0], rect |-> NoRect, row_pitch |-> 0,
     outLen |-> 0, rlen |-> 0]

DInit ==
    /\ pc = "idle"
    /\ call = NoCall
    /\ result = NoResult
    /\ pos = 0
    /\ reads = 0
    /\ pixels_left = 0
    /\ buf_pixels = 0
    /\ outLeft = 0
    /\ refill = NoRefill

\* The call returns r without having touched the reader.
ReturnEarly(r) ==
    /\ result' = r
    /\ pc' = "done"
    /\ UNCHANGED <<pos, reads, pixels_left, buf_pixels, outLeft, refill>>

\* SupportedFormat::decode, DecoderSet::decode up to the first read, for an
\* uncompressed format: the support check, Args::new, the empty image, and the
\* set-up of for_each_pixel (ReadBuffer::new).
Decode ==
    /\ pc = "idle"
    /\ \E fmt \in Formats, color \in ColorFormats, size \in Sizes :
         \E outLen \in OutLens(size.width * size.height * BytesPerPixel(color)),
            rlen \in Rlens(fmt, size) :
           /\ call' = [op |-> "decode", fmt |-> fmt, color |-> color, size |-> size,
                       rect |-> NoRect, row_pitch |-> 0, outLen |-> outLen, rlen |-> rlen]
           /\ IF ~Supports(fmt, color)
              THEN ReturnEarly(Res("UnsupportedColorFormat", 0))
              ELSE IF ArgsNew(size, color, outLen) # Ok
              THEN ReturnEarly(ArgsNew(size, color, outLen))
              ELSE IF SizeIsEmpty(size)
              THEN ReturnEarly(Ok)
              ELSE LET out_pixel_size == BytesPerPixel(color)
                       pixels == outLen \div out_pixel_size
                   IN  IF outLen % out_pixel_size # 0
                       THEN ReturnEarly(Res("panic", 0))
                       ELSE /\ buf_pixels' = ReadBufferPixels(fmt.encoded_size, pixels)
                            /\ pixels_left' = pixels
                            /\ outLeft' = outLen
                            /\ pc' = "loop"
                            /\ UNCHANGED <<result, pos, reads, refill>>
    /\ UNCHANGED <<mvars, avars, kvars, evars, hvars, svars>>

\* One iteration of the loop of for_each_pixel over buf.chunks_mut(..): the
\* refill (ReadBuffer::read, read_exact) and the chunk it is paired with; or the
\* end of the loop. A failing read_exact leaves the number of bytes it consumed
\* unspecified: none or all that were left.
ForEachPixelStep ==
    /\ pc = "loop"
    /\ IF outLeft = 0
       THEN /\ result' = Ok
            /\ pc' = "done"
            /\ UNCHANGED <<pos, reads, pixels_left, buf_pixels, outLeft, refill>>
       ELSE LET out_pixel_size == BytesPerPixel(call.color)
                chunkBytes == Min(outLeft, buf_pixels * out_pixel_size)
                pixels_to_read == PixelsToRead(buf_pixels, pixels_left)
                n == pixels_to_read * call.fmt.encoded_size
            IN  /\ pixels_left' = SubUsize(pixels_left, pixels_to_read)
                /\ reads' = reads + 1
                /\ refill' = [before |-> pixels_left, read |-> pixels_to_read,
                              chunk |-> chunkBytes \div out_pixel_size]
                /\ UNCHANGED buf_pixels
                /\ IF pos + n <= call.rlen
                   THEN /\ pos' = pos + n
                        /\ outLeft' = outLeft - chunkBytes
                        /\ UNCHANGED <<pc, result>>
                   ELSE /\ pos' \in {pos, call.rlen}
                        /\ result' = Res("Io", 0)
                        /\ pc' = "done"
                        /\ UNCHANGED outLeft
    /\ UNCHANGED <<call, mvars, avars, kvars, evars, hvars, svars>>

\* SupportedFormat::decode_rect, DecoderSet::decode_rect up to the dispatch:
\* the support check, RArgs::new and the empty rect.
DecodeRect ==
    /\ pc = "idle"
    /\ \E fmt \in RectFormats, color \in ColorFormats, size \in RectSizes, rect \in Rects :
         \E row_pitch \in RowPitches(rect.width * BytesPerPixel(color)) :
           \E outLen \in OutLens(row_pitch * rect.height),
              rlen \in {0, size.width * size.height * fmt.encoded_size} :
             /\ call' = [op |-> "decode_rect", fmt |-> fmt, color |-> color, size |-> size,
                         rect |-> rect, row_pitch |-> row_pitch, outLen |-> outLen,
                         rlen |-> rlen]
             /\ IF ~Supports(fmt, color)
                THEN ReturnEarly(Res("UnsupportedColorFormat", 0))
                ELSE IF RArgsNew(size, color, rect, row_pitch, outLen) # Ok
                THEN ReturnEarly(RArgsNew(size, color, rect, row_pitch, outLen))
                ELSE IF SizeIsEmpty(RectSize(rect))
                THEN ReturnEarly(Ok)
                ELSE /\ pc' = "rect"
                     /\ UNCHANGED <<result, pos, reads, pixels_left, buf_pixels, outLeft, refill>>
    /\ UNCHANGED <<mvars, avars, kvars, evars, hvars, svars>>

\* The length of the encoded image data of the surface of the call.
SurfaceLen == call.size.width * call.size.height * call.fmt.encoded_size

\* The rows of a non-empty rect of an uncompressed surface: the reader is moved
\* forward over the rows before, between and after the rect and the rows of the
\* rect are read; it ends at the end of the surface, or fails on the way.
RectBody ==
    /\ pc = "rect"
    /\ IF SurfaceLen <= call.rlen
       THEN /\ pos' = SurfaceLen
            /\ result' = Ok
       ELSE /\ pos' \in {pos, call.rlen}
            /\ result' = Res("Io", 0)
    /\ reads' = reads + 1
    /\ pc' = "done"
    /\ UNCHANGED <<call, pixels_left, buf_pixels, outLeft, refill, mvars, avars, kvars, evars, hvars, svars>>

DNext == Decode \/ ForEachPixelStep \/ DecodeRect \/ RectBody

----------------------------------------------------------------------------
(* decode/decoder.rs: DecodeContext::reserve_bytes *)

\* Largest initial budget and largest request tried (besides usize::MAX).
MaxMemoryLimit == 6
MaxRequest == 7

\* The guard with the comparison off by one.
ReserveFailsOffByOne(limit, bytes) == limit <= bytes
\* if self.memory_limit < bytes
ReserveFails(limit, bytes) == limit < bytes

NoMemLog == [init |-> 0, granted |-> 0, bytes |-> 0, before |-> 0, res |-> "none",
             op |-> "none", len |-> 0, size |-> 0, build |-> "none"]

MInit ==
    /\ memory_limit \in 0 .. MaxMemoryLimit
    /\ memLog = [NoMemLog EXCEPT !.init = memory_limit, !.before = memory_limit]

MIdle ==
    /\ memory_limit = 0
    /\ memLog = NoMemLog

\* DecodeContext::reserve_bytes
ReserveBytes ==
    /\ \E bytes \in (0 .. MaxRequest) \cup {UsizeMax} :
         IF ReserveFails(memory_limit, bytes)
         THEN /\ memLog' = [memLog EXCEPT !.bytes = bytes, !.before = memory_limit,
                                           !.res = "MemoryLimitExceeded",
                                           !.op = "reserve_bytes", !.len = 0, !.size = 0,
                                           !.build = "none"]
              /\ UNCHANGED memory_limit
         ELSE /\ memory_limit' = SubUsize(memory_limit, bytes)
              /\ memLog' = [memLog EXCEPT !.bytes = bytes, !.before = memory_limit,
                                           !.res = "Ok",
                                           !.granted = Min(@ + bytes, UsizeMax),
                                           !.op = "reserve_bytes", !.len = 0, !.size = 0,
                                           !.build = "none"]
    /\ UNCHANGED <<dvars, avars, kvars, evars, hvars, svars>>

\* size_of::<T>() of the elements allocated: u8, f32, [f32; 4].
ElementSizes == {1, 4, 16}
\* The lengths tried: the small ones, the first two whose product with an
\* element size does not fit usize, and usize::MAX.
AllocLens ==
    (0 .. MaxRequest) \cup {UsizeMax}
        \cup {(UsizeMax + 1) \div s + k : s \in ElementSizes \ {1}, k \in {0, 1}}

\* len * size_of::<T>(): with overflow checks (a debug build) an overflow
\* panics, without them (a release build) the product wraps.
AllocBytes(len, size, build) ==
    IF len * size > UsizeMax /\ build = "debug" THEN -1 ELSE MulU64(len, size)

\* DecodeContext::alloc and DecodeContext::alloc_capacity: the product,
\* reserve_bytes, then the allocation of len elements, which panics with a
\* capacity overflow when they take more than isize::MAX bytes.
Alloc ==
    /\ \E op \in {"alloc", "alloc_capacity"}, len \in AllocLens, size \in ElementSizes,
          build \in {"debug", "release"} :
         LET bytes == AllocBytes(len, size, build)
             log == [memLog EXCEPT !.op = op, !.len = len, !.size = size, !.build = build,
                                   !.before = memory_limit]
         IN  IF bytes = -1
             THEN /\ memLog' = [log EXCEPT !.bytes = 0, !.res = "panic: multiply with overflow"]
                  /\ UNCHANGED memory_limit
             ELSE IF ReserveFails(memory_limit, bytes)
             THEN /\ memLog' = [log EXCEPT !.bytes = bytes, !.res = "MemoryLimitExceeded"]
                  /\ UNCHANGED memory_limit
             ELSE /\ memory_limit' = SubUsize(memory_limit, bytes)
                  /\ memLog' = [log EXCEPT !.bytes = bytes,
                                           !.granted = Min(@ + bytes, UsizeMax),
                                           !.res = IF len * size > IsizeMax
                                                   THEN "panic: capacity overflow"
                                                   ELSE "Ok"]
    /\ UNCHANGED <<dvars, avars, kvars, evars, hvars, svars>>

MNext == ReserveBytes \/ Alloc

----------------------------------------------------------------------------
(* decode/convert.rs: integer arithmetic of the kernels, at its real width *)

\* x as u8, x as u16 (truncating casts)
AsU8(v) == v % 256
AsU16(v) == v % 65536

\* A u32 value is kept as its two 16-bit halves; ovf records that the exact
\* result of the arithmetic did not fit 32 bits (the value is the wrapped one).
U32(hi, lo, ovf) == [hi |-> hi, lo |-> lo, ovf |-> ovf]

\* x as u32 * c, for a 16-bit x and a constant c < 2^31
U32Mul(x, c) ==
    LET ch == c \div 65536
        cl == c % 65536
        xh == x \div 256
        xl == x % 256
        t == xh * cl
        low == (t % 256) * 256 + xl * cl
        high == x * ch + (t \div 256) + (low \div 65536)
    IN  U32(high % 65536, low % 65536, high >= 65536)

\* a + d, for a u32 a and a constant d < 2^31
U32Add(a, d) ==
    LET low == a.lo + (d % 65536)
        high == a.hi + (d \div 65536) + (low \div 65536)
    IN  U32(high % 65536, low % 65536, a.ovf \/ high >= 65536)

\* (a >> 16) as u16, (a >> 24) as u8
U32Shr16(a) == a.hi
U32Shr24(a) == a.hi \div 256

----------------------------------------------------------------------------
(* decode/convert.rs: Unorm and Snorm kernels *)

n1_n8(x) == IF x = 0 THEN 0 ELSE 255
n1_n16(x) == IF x = 0 THEN 0 ELSE 65535
n2_n8(x) == AsU8(x * 85)
n2_n16(x) == AsU16(x * 21845)
n4_n8(x) == AsU8(x * 17)
n4_n16(x) == AsU16(x * 4369)
n5_n8(x) == AsU8(AsU16(x * 2108 + 92) \div 256)
n5_n16(x) == U32Shr16(U32Mul(x, 138547200))
n6_n8(x) == AsU8(AsU16(x * 1036 + 132) \div 256)
n6_n16(x) == U32Shr16(U32Add(U32Mul(x, 68173056), 30976))
n8_n16(x) == AsU16(x * 257)
\* n10::n8 without the rounding term.
n10_n8_truncating(x) == AsU8(U32Shr16(U32Mul(x, 16336)))
n10_n8(x) == AsU8(U32Shr16(U32Add(U32Mul(x, 16336), 32656)))
n10_n16(x) == U32Shr16(U32Add(U32Mul(x, 4198340), 32660))
n16_n8(x) == AsU8(U32Shr16(U32Add(U32Mul(x, 255), 32895)))

\* s8::norm without the saturating subtraction.
s8_norm_wrapping_only(x) == AsU8(x + 128)
\* x.wrapping_add(128).saturating_sub(1)
s8_norm(x) == Max(AsU8(x + 128) - 1, 0)
s8_n8(x) == AsU8(AsU16(s8_norm(x) * 258 + 2) \div 256)
s8_n16(x) == U32Shr16(U32Add(U32Mul(s8_norm(x), 16909064), 32520))
\* x.wrapping_add(32768).saturating_sub(1)
s16_norm(x) == Max(AsU16(x + 32768) - 1, 0)
s16_n8(x) == U32Shr24(U32Add(U32Mul(s16_norm(x), 65282), 8388354))
s16_n16(x) == U32Shr16(U32Add(U32Mul(s16_norm(x), 65538), 2))

\* The Unorm widths with kernels to 8 and to 16 bits, and the kernels by width.
UnormWidths == {1, 2, 4, 5, 6, 8, 10, 16}
unorm_n8(n, x) ==
    CASE n = 1 -> n1_n8(x) [] n = 2 -> n2_n8(x) [] n = 4 -> n4_n8(x)
      [] n = 5 -> n5_n8(x) [] n = 6 -> n6_n8(x)
      [] n = 10 -> n10_n8(x) [] n = 16 -> n16_n8(x)
unorm_n16(n, x) ==
    CASE n = 1 -> n1_n16(x) [] n = 2 -> n2_n16(x) [] n = 4 -> n4_n16(x)
      [] n = 5 -> n5_n16(x) [] n = 6 -> n6_n16(x) [] n = 8 -> n8_n16(x)
      [] n = 10 -> n10_n16(x)
snorm_n8(n, x) == IF n = 8 THEN s8_n8(x) ELSE s16_n8(x)
snorm_n16(n, x) == IF n = 8 THEN s8_n16(x) ELSE s16_n16(x)

----------------------------------------------------------------------------
(* f32 arithmetic: IEEE 754 binary32, round to nearest, ties to even *)

\* A float is NaN, an infinity, or (-1)^sign * sig * 2^e with sig odd (or zero
\* with e = 0). The kernels below stay within the exponent range of the
\* normal f32 values, so neither overflow nor gradual underflow is modelled.
RECURSIVE BitLen(_)
BitLen(n) == IF n = 0 THEN 0 ELSE 1 + BitLen(n \div 2)

RECURSIVE Canon(_, _, _)
Canon(sign, sig, e) ==
    IF sig = 0 THEN [kind |-> "num", sign |-> sign, sig |-> 0, e |-> 0]
    ELSE IF sig % 2 = 0 THEN Canon(sign, sig \div 2, e + 1)
    ELSE [kind |-> "num", sign |-> sign, sig |-> sig, e |-> e]

NaN == [kind |-> "nan", sign |-> 0, sig |-> 0, e |-> 0]
Inf(sign) == [kind |-> "inf", sign |-> sign, sig |-> 0, e |-> 0]

\* The f32 nearest to sig * 2^e: the significand is cut to 24 bits.
RoundF32(sign, sig, e) ==
    LET k == BitLen(sig) - 24
    IN  IF k <= 0 THEN Canon(sign, sig, e)
        ELSE LET q == sig \div Pow2(k)
                 r == sig % Pow2(k)
                 half == Pow2(k - 1)
                 up == r > half \/ (r = half /\ q % 2 = 1)
             IN  Canon(sign, IF up THEN q + 1 ELSE q, e + k)

\* n as f32, for 0 <= n < 2^24
F32FromInt(n) == Canon(0, n, 0)

\* A natural number below 2^48 kept as hi * 2^24 + lo with lo < 2^24.
W(hi, lo) == [hi |-> hi, lo |-> lo]

\* a * b for a, b < 2^24
WMul(a, b) ==
    LET ah == a \div 4096
        al == a % 4096
        bh == b \div 4096
        bl == b % 4096
        mid == ah * bl + al * bh
        low == al * bl + (mid % 4096) * 4096
    IN  W(ah * bh + (mid \div 4096) + (low \div 16777216), low % 16777216)

\* n * 2^s for n < 2^24
WShl(n, s) ==
    IF s <= 24
    THEN W(n \div Pow2(24 - s), (n % Pow2(24 - s)) * Pow2(s))
    ELSE W(n * Pow2(s - 24), 0)

WAdd(u, v) ==
    W(u.hi + v.hi + ((u.lo + v.lo) \div 16777216), (u.lo + v.lo) % 16777216)

\* The f32 nearest to w * 2^e
RoundW(sign, w, e) ==
    IF w.hi = 0 THEN RoundF32(sign, w.lo, e)
    ELSE LET k == BitLen(w.hi)
             q == w.hi * Pow2(24 - k) + (w.lo \div Pow2(k))
             r == w.lo % Pow2(k)
             half == Pow2(k - 1)
             up == r > half \/ (r = half /\ q % 2 = 1)
         IN  Canon(sign, IF up THEN q + 1 ELSE q, e + k)

\* a * b
F32Mul(a, b) ==
    LET sign == (a.sign + b.sign) % 2
    IN  IF a.kind = "nan" \/ b.kind = "nan" THEN NaN
        ELSE IF a.kind = "inf" \/ b.kind = "inf"
        THEN IF (a.kind = "num" /\ a.sig = 0) \/ (b.kind = "num" /\ b.sig = 0)
             THEN NaN ELSE Inf(sign)
        ELSE RoundW(sign, WMul(a.sig, b.sig), a.e + b.e)

\* The exponent of the bit above the leading bit of a finite float.
Top(a) == a.e + BitLen(a.sig)

\* a + b
F32Add(a, b) ==
    IF a.kind = "nan" \/ b.kind = "nan" THEN NaN
    ELSE IF a.kind = "inf" /\ b.kind = "inf"
    THEN IF a.sign = b.sign THEN a ELSE NaN
    ELSE IF a.kind = "inf" THEN a
    ELSE IF b.kind = "inf" THEN b
    ELSE IF a.sig = 0 /\ b.sig = 0
    THEN Canon(IF a.sign = 1 /\ b.sign = 1 THEN 1 ELSE 0, 0, 0)
    ELSE IF b.sig = 0 THEN a
    ELSE IF a.sig = 0 THEN b
    \* the smaller operand is below a quarter of the last place of the larger
    ELSE IF Top(b) <= Top(a) - 26 THEN a
    ELSE IF Top(a) <= Top(b) - 26 THEN b
    ELSE LET emin == Min(a.e, b.e)
             A == (IF a.sign = 1 THEN -1 ELSE 1) * a.sig * Pow2(a.e - emin)
             B == (IF b.sign = 1 THEN -1 ELSE 1) * b.sig * Pow2(b.e - emin)
             S == A + B
         IN  IF S = 0 THEN Canon(0, 0, 0)
             ELSE IF S < 0 THEN RoundF32(1, -S, emin)
             ELSE RoundF32(0, S, emin)

\* -a
F32Neg(a) == IF a.kind = "nan" THEN NaN ELSE [a EXCEPT !.sign = 1 - @]

\* a as u8 / a as u16: towards zero, saturating, NaN to 0
F32AsUint(a, max) ==
    IF a.kind = "nan" THEN 0
    ELSE IF a.kind = "inf" THEN (IF a.sign = 1 THEN 0 ELSE max)
    ELSE IF a.sign = 1 \/ a.sig = 0 THEN 0
    ELSE IF Top(a) > 17 THEN max
    ELSE IF a.e >= 0 THEN Min(a.sig * Pow2(a.e), max)
    ELSE IF a.e < -30 THEN 0
    ELSE Min(a.sig \div Pow2(-a.e), max)

\* two_powi (util.rs)
two_powi(exponent) == Canon(0, 1, exponent)

F32Half == Canon(0, 1, -1)

\* a * b for finite a, b with significands of up to 24 bits
F32MulWide(a, b) == RoundW((a.sign + b.sign) % 2, WMul(a.sig, b.sig), a.e + b.e)

\* a + b for finite a, b >= 0 whose sum spans fewer than 48 bits
F32AddWide(a, b) ==
    IF b.sig = 0 THEN a
    ELSE IF a.sig = 0 THEN b
    ELSE LET emin == Min(a.e, b.e)
         IN  RoundW(0, WAdd(WShl(a.sig, a.e - emin), WShl(b.sig, b.e - emin)), emin)

\* The first bits of x / d, x < d: the quotient of x * 2^bits by d and whether
\* the remainder is not 0.
RECURSIVE DivBits(_, _, _, _)
DivBits(rem, d, q, bits) ==
    IF bits = 0 THEN [q |-> q, sticky |-> rem # 0]
    ELSE IF 2 * rem >= d THEN DivBits(2 * rem - d, d, 2 * q + 1, bits - 1)
    ELSE DivBits(2 * rem, d, 2 * q, bits - 1)

\* x as f32 / d as f32 for 0 <= x <= d < 2^17: the f32 nearest to x / d
F32Div(x, d) ==
    IF x = 0 THEN Canon(0, 0, 0)
    ELSE IF x = d THEN Canon(0, 1, 0)
    ELSE LET j == BitLen(d) - BitLen(x) + (IF x * Pow2(BitLen(d) - BitLen(x)) < d THEN 1 ELSE 0)
             \* x * 2^j is in [d, 2d): 25 bits of the quotient start with a 1
             r == DivBits(x * Pow2(j - 1), d, 0, 25)
             sig == r.q \div 2
             up == r.q % 2 = 1 /\ (r.sticky \/ sig % 2 = 1)
         IN  Canon(0, IF up THEN sig + 1 ELSE sig, -j - 23)

----------------------------------------------------------------------------
(* decode/convert.rs: fp, fp16 and bc6h_uf16 kernels *)

fp_n8(x) == F32AsUint(F32Add(F32Mul(x, F32FromInt(255)), F32Half), 255)
fp_n16(x) == F32AsUint(F32Add(F32Mul(x, F32FromInt(65535)), F32Half), 65535)

\* x >> 10 & 0b1_1111, x & 0b11_1111_1111, x & 0x8000 != 0
Fp16Exp(x) == (x \div 1024) % 32
Fp16Mant(x) == x % 1024
Fp16Sign(x) == x \div 32768 = 1

\* (mant as f32 + 1024_f32) * two_powi(exp as i8 - 25)
Fp16Normal(x) ==
    F32Mul(F32Add(F32FromInt(Fp16Mant(x)), F32FromInt(1024)), two_powi(Fp16Exp(x) - 25))
\* const F: f32 = 65535.0 / 16777216.0
Fp16DenormF == Canon(0, 65535, -24)

\* fp16::n8 without the test of the sign bit.
fp16_n8_ignoring_sign(x) ==
    IF Fp16Exp(x) # 31
    THEN F32AsUint(F32Add(F32Mul(Fp16Normal(x), F32FromInt(255)), F32Half), 255)
    ELSE IF Fp16Mant(x) = 0 THEN 255 ELSE 0
fp16_n8(x) ==
    LET val == IF Fp16Exp(x) # 31
               THEN F32AsUint(F32Add(F32Mul(Fp16Normal(x), F32FromInt(255)), F32Half), 255)
               ELSE IF Fp16Mant(x) = 0 THEN 255 ELSE 0
    IN  IF Fp16Sign(x) THEN 0 ELSE val

\* fp16::n16 without the branch for denormal values.
fp16_n16_no_denorm(x) ==
    LET val == IF Fp16Exp(x) # 31
               THEN F32AsUint(F32Add(F32Mul(Fp16Normal(x), F32FromInt(65535)), F32Half), 65535)
               ELSE IF Fp16Mant(x) = 0 THEN 65535 ELSE 0
    IN  IF Fp16Sign(x) THEN 0 ELSE val
fp16_n16(x) ==
    LET val == IF Fp16Exp(x) = 0
               THEN F32AsUint(F32Add(F32Mul(F32FromInt(Fp16Mant(x)), Fp16DenormF), F32Half), 65535)
               ELSE IF Fp16Exp(x) # 31
               THEN F32AsUint(F32Add(F32Mul(Fp16Normal(x), F32FromInt(65535)), F32Half), 65535)
               ELSE IF Fp16Mant(x) = 0 THEN 65535 ELSE 0
    IN  IF Fp16Sign(x) THEN 0 ELSE val

fp16_f32(x) ==
    LET val == IF Fp16Exp(x) = 0
               THEN F32Mul(F32FromInt(Fp16Mant(x)), two_powi(-24))
               ELSE IF Fp16Exp(x) # 31 THEN Fp16Normal(x)
               ELSE IF Fp16Mant(x) = 0 THEN Inf(0) ELSE NaN
    IN  IF Fp16Sign(x) THEN F32Neg(val) ELSE val

bc6h_uf16_n8(x) ==
    F32AsUint(F32Add(F32Mul(Fp16Normal(x), F32FromInt(255)), F32Half), 255)
bc6h_uf16_n16(x) ==
    IF Fp16Exp(x) = 0
    THEN F32AsUint(F32Add(F32Mul(F32FromInt(Fp16Mant(x)), Fp16DenormF), F32Half), 65535)
    ELSE F32AsUint(F32Add(F32Mul(Fp16Normal(x), F32FromInt(65535)), F32Half), 65535)
bc6h_uf16_f32(x) ==
    IF Fp16Exp(x) = 0
    THEN F32Mul(F32FromInt(Fp16Mant(x)), two_powi(-24))
    ELSE Fp16Normal(x)

----------------------------------------------------------------------------
(* decode/convert.rs: the exact float kernels of the Unorm widths *)

\* K0 of nN::f32_exact
UnormK0(n) == CASE n = 4 -> 3 [] n = 5 -> 3 [] n = 6 -> 5 [] n = 8 -> 3 [] n = 10 -> 85

\* x as f32 * F with F = 1.0 / MAX (nN::f32)
unorm_f32(n, x) == F32MulWide(F32FromInt(x), F32Div(1, Pow2(n) - 1))
\* n1::f32, n2::f32, (x as f32 * K0) * K1 with K1 = 1.0 / (MAX * K0) of
\* nN::f32_exact, (temp * C0) + (temp * C1) of n16::f32_exact
unorm_f32_exact(n, x) ==
    CASE n = 1 -> IF x = 0 THEN F32FromInt(0) ELSE F32FromInt(1)
      [] n = 2 -> F32MulWide(F32FromInt(x), F32Div(1, 3))
      [] n = 16 -> F32AddWide(F32MulWide(F32FromInt(x), Canon(0, 1, -16)),
                              F32MulWide(F32FromInt(x), Canon(0, 65537, -48)))
      [] OTHER -> F32MulWide(F32MulWide(F32FromInt(x), F32FromInt(UnormK0(n))),
                             F32Div(1, (Pow2(n) - 1) * UnormK0(n)))

----------------------------------------------------------------------------
(* decode/convert.rs: xr10, fp11 and fp10 kernels, B5G5R5A1 *)

\* x as i16 - 0x180
xr10_biased(x) == x - 384
\* x.clamp(0, 510) as u16
xr10_clamped(x) == Min(Max(xr10_biased(x), 0), 510)
\* xr10::n8 with x >> 1 in place of (x + 1) >> 1.
xr10_n8_truncating(x) == AsU8(AsU16(xr10_clamped(x)) \div 2)
xr10_n8(x) == AsU8(AsU16(xr10_clamped(x) + 1) \div 2)
xr10_n16(x) == U32Shr16(U32Add(U32Mul(xr10_clamped(x), 8421376), 65535))
\* const F: f32 = 1.0 / 510.0; (x as i16 - 0x180) as f32 * F
xr10_f32(x) ==
    LET biased == xr10_biased(x)
    IN  F32Mul(IF biased < 0 THEN Canon(1, -biased, 0) ELSE Canon(0, biased, 0),
               F32Div(1, 510))

\* The exponent and the mantissa of a float of 5 exponent bits and m
\* mantissa bits (m = 6 for fp11, 5 for fp10, 10 for fp16).
FpExp(m, x) == (x \div Pow2(m)) % 32
FpMant(m, x) == x % Pow2(m)
\* exp as i8 - 21 (fp11), exp as i8 - 20 (fp10), exp as i8 - 25 (fp16)
FpPower(m, x) == FpExp(m, x) - (15 + m)
\* (mant as f32 + 64_f32) * two_powi(exp as i8 - 21), and so for fp10
FpNormal(m, x) ==
    F32Mul(F32Add(F32FromInt(FpMant(m, x)), F32FromInt(Pow2(m))), two_powi(FpPower(m, x)))

fp11_n8(x) ==
    IF FpExp(6, x) # 31
    THEN F32AsUint(F32Add(F32Mul(FpNormal(6, x), F32FromInt(255)), F32Half), 255)
    ELSE IF FpMant(6, x) = 0 THEN 255 ELSE 0
fp11_n16(x) ==
    IF FpExp(6, x) = 0 THEN AsU16(FpMant(6, x) + 7) \div 16
    ELSE IF FpExp(6, x) # 31
    THEN F32AsUint(F32Add(F32Mul(FpNormal(6, x), F32FromInt(65535)), F32Half), 65535)
    ELSE IF FpMant(6, x) = 0 THEN 65535 ELSE 0
fp10_n8(x) ==
    IF FpExp(5, x) # 31
    THEN F32AsUint(F32Add(F32Mul(FpNormal(5, x), F32FromInt(255)), F32Half), 255)
    ELSE IF FpMant(5, x) = 0 THEN 255 ELSE 0
fp10_n16(x) ==
    IF FpExp(5, x) = 0 THEN AsU16(FpMant(5, x) + 3) \div 8
    ELSE IF FpExp(5, x) # 31
    THEN F32AsUint(F32Add(F32Mul(FpNormal(5, x), F32FromInt(65535)), F32Half), 65535)
    ELSE IF FpMant(5, x) = 0 THEN 65535 ELSE 0

\* fp11::f32 (m = 6) and fp10::f32 (m = 5)
FpF32(m, x) ==
    IF FpExp(m, x) = 0 THEN F32Mul(F32FromInt(FpMant(m, x)), two_powi(-14 - m))
    ELSE IF FpExp(m, x) # 31 THEN FpNormal(m, x)
    ELSE IF FpMant(m, x) = 0 THEN Inf(0) ELSE NaN
fp11_f32(x) == FpF32(6, x)
fp10_f32(x) == FpF32(5, x)

\* rgb9995f: one channel of a word of exponent exp, with mantissa mant.
\* const C23: f32 = 1.0 / 8388608.0
RGB9995F_C23 == two_powi(-23)
rgb9995f_channel_f32(exp, mant) ==
    IF exp = 0 THEN F32Mul(F32FromInt(mant), RGB9995F_C23)
    ELSE IF exp # 31 THEN F32Mul(F32FromInt(mant), two_powi(exp - 24))
    ELSE IF mant = 0 THEN Inf(0) ELSE NaN
rgb9995f_channel_n8(exp, mant) ==
    IF exp # 31
    THEN LET f == F32Mul(two_powi(exp - 24), F32FromInt(255))
         IN  F32AsUint(F32Add(F32Mul(F32FromInt(mant), f), F32Half), 255)
    ELSE IF mant = 0 THEN 255 ELSE 0
rgb9995f_channel_n16(exp, mant) ==
    IF exp = 0
    THEN LET F == F32Mul(RGB9995F_C23, F32FromInt(65535))
         IN  F32AsUint(F32Add(F32Mul(F32FromInt(mant), F), F32Half), 65535)
    ELSE IF exp # 31
    THEN LET f == F32Mul(two_powi(exp - 24), F32FromInt(65535))
         IN  F32AsUint(F32Add(F32Mul(F32FromInt(mant), f), F32Half), 65535)
    ELSE IF mant = 0 THEN 65535 ELSE 0

\* The fields of a word of R9G9B9E5_SHAREDEXP: rgb & 0x1FF, (rgb >> 9) & 0x1FF,
\* (rgb >> 18) & 0x1FF, (rgb >> 27) & 0x1F.
Rgb9995(exp, r_mant, g_mant, b_mant) ==
    [exp |-> exp, mants |-> <<r_mant, g_mant, b_mant>>]
rgb9995f_f32(rgb) == [i \in 1 .. 3 |-> rgb9995f_channel_f32(rgb.exp, rgb.mants[i])]
rgb9995f_n8(rgb) == [i \in 1 .. 3 |-> rgb9995f_channel_n8(rgb.exp, rgb.mants[i])]
rgb9995f_n16(rgb) == [i \in 1 .. 3 |-> rgb9995f_channel_n16(rgb.exp, rgb.mants[i])]

\* B5G5R5A1::from_u16
B5G5R5A1_from_u16(u) ==
    [b5 |-> u % 32, g5 |-> (u \div 32) % 32, r5 |-> (u \div 1024) % 32,
     a1 |-> (u \div 32768) % 2]

----------------------------------------------------------------------------
(* decode/convert.rs: the range assertions and the widths of the
   intermediate values of the kernels *)

\* The names of the checks that fail, of a set of <<name, holds>>.
Failing(checks) == {c[1] : c \in {d \in checks : ~d[2]}}

\* debug_assert!(x <= MAX) and the u8, u16 and u32 arithmetic of nN::n8 and
\* nN::n16.
UnormFaults(n, x) ==
    Failing(
      CASE n = 1 -> {<<"n1: x <= 1", x <= 1>>}
        [] n = 2 -> {<<"n2: x <= 3", x <= 3>>,
                     <<"n2::n8: u8", x * 85 < 256>>,
                     <<"n2::n16: u16", x * 21845 < 65536>>}
        [] n = 4 -> {<<"n4: x <= 15", x <= 15>>,
                     <<"n4::n8: u8", x * 17 < 256>>,
                     <<"n4::n16: u16", x * 4369 < 65536>>}
        [] n = 5 -> {<<"n5: x <= 31", x <= 31>>,
                     <<"n5::n8: u16", x * 2108 + 92 < 65536>>,
                     <<"n5::n8: as u8", (x * 2108 + 92) \div 256 < 256>>,
                     <<"n5::n16: u32", ~U32Mul(x, 138547200).ovf>>}
        [] n = 6 -> {<<"n6: x <= 63", x <= 63>>,
                     <<"n6::n8: u16", x * 1036 + 132 < 65536>>,
                     <<"n6::n8: as u8", (x * 1036 + 132) \div 256 < 256>>,
                     <<"n6::n16: u32", ~U32Add(U32Mul(x, 68173056), 30976).ovf>>}
        [] n = 8 -> {<<"n8::n16: u16", x * 257 < 65536>>}
        [] n = 10 -> {<<"n10: x <= 1023", x <= 1023>>,
                      <<"n10::n8: u32", ~U32Add(U32Mul(x, 16336), 32656).ovf>>,
                      <<"n10::n8: as u8",
                        U32Shr16(U32Add(U32Mul(x, 16336), 32656)) < 256>>,
                      <<"n10::n16: u32", ~U32Add(U32Mul(x, 4198340), 32660).ovf>>}
        [] n = 16 -> {<<"n16::n8: u32", ~U32Add(U32Mul(x, 255), 32895).ovf>>,
                      <<"n16::n8: as u8",
                        U32Shr16(U32Add(U32Mul(x, 255), 32895)) < 256>>})

\* The u16 and u32 arithmetic of s8::n8, s8::n16, s16::n8 and s16::n16.
SnormFaults(n, x) ==
    Failing(
      IF n = 8
      THEN {<<"s8::n8: u16", s8_norm(x) * 258 + 2 < 65536>>,
            <<"s8::n8: as u8", (s8_norm(x) * 258 + 2) \div 256 < 256>>,
            <<"s8::n16: u32", ~U32Add(U32Mul(s8_norm(x), 16909064), 32520).ovf>>}
      ELSE {<<"s16::n8: u32", ~U32Add(U32Mul(s16_norm(x), 65282), 8388354).ovf>>,
            <<"s16::n16: u32", ~U32Add(U32Mul(s16_norm(x), 65538), 2).ovf>>})

\* The i16, u16 and u32 arithmetic of xr10::n8 and xr10::n16.
Xr10Faults(x) ==
    Failing({<<"xr10: x as i16", x < 32768>>,
             <<"xr10: i16", xr10_biased(x) >= -32768 /\ xr10_biased(x) < 32768>>,
             <<"xr10::n8: u16", xr10_clamped(x) + 1 < 65536>>,
             <<"xr10::n8: as u8", (xr10_clamped(x) + 1) \div 2 < 256>>,
             <<"xr10::n16: u32",
               ~U32Add(U32Mul(xr10_clamped(x), 8421376), 65535).ovf>>})

\* exp as i8 - 21 and the debug_assert!(-126 <= exponent) of two_powi, which
\* shifts exponent + 127 into the 8 exponent bits; mant + 7 in u16.
FpFaults(m, x) ==
    Failing({<<"exp as i8 - bias: i8", FpPower(m, x) >= -128 /\ FpPower(m, x) < 128>>,
             <<"two_powi: -126 <= exponent", FpPower(m, x) >= -126>>,
             <<"two_powi: exponent + 127 in 8 bits", FpPower(m, x) + 127 < 256>>,
             <<"denorm: u16", FpMant(m, x) + 7 < 65536>>})

\* self.r5 as u8 and so on, and the assertions of n5::n8, n6::n8 and n1::n8
\* on the parts of a 16-bit word.
PartFaults(widths, parts) ==
    UNION {UnormFaults(widths[i], parts[i]) : i \in DOMAIN parts}
        \cup Failing({<<"as u8", parts[i] < 256>> : i \in DOMAIN parts})

----------------------------------------------------------------------------
(* The kernels applied to one bit pattern *)

NoFloat == [kind |-> "none", sign |-> 0, sig |-> 0, e |-> 0]
NoKout == [op |-> "none", n |-> 0, n8 |-> 0, n16 |-> 0, f |-> NoFloat,
           via8 |-> 0, via16 |-> 0, third |-> <<>>, mid |-> <<>>, fails |-> {},
           parts |-> <<>>, color8 |-> <<>>, color16 |-> <<>>,
           via_color8 |-> <<>>, via_color16 |-> <<>>]

\* Every 16-bit pattern.
KInit ==
    /\ kin \in 0 .. 65535
    /\ kout = NoKout

KIdle ==
    /\ kin = 0
    /\ kout = NoKout

\* nN::n8 and nN::n16 for a width N and an N-bit value (there is no n8::n8 and
\* no n16::n16)
ApplyUnorm ==
    /\ kout.op = "none"
    /\ \E n \in UnormWidths :
         /\ kin < Pow2(n)
         /\ kout' = [NoKout EXCEPT !.op = "unorm", !.n = n,
                                   !.n8 = IF n = 8 THEN 0 ELSE unorm_n8(n, kin),
                                   !.n16 = IF n = 16 THEN 0 ELSE unorm_n16(n, kin),
                                   !.f = unorm_f32_exact(n, kin),
                                   !.fails = UnormFaults(n, kin)]
    /\ UNCHANGED <<kin, dvars, mvars, avars, evars, hvars, svars>>

\* s8::n8, s8::n16 for a byte; s16::n8, s16::n16 for a 16-bit pattern
ApplySnorm ==
    /\ kout.op = "none"
    /\ \E n \in {8, 16} :
         /\ kin < Pow2(n)
         /\ kout' = [NoKout EXCEPT !.op = "snorm", !.n = n,
                                   !.n8 = snorm_n8(n, kin), !.n16 = snorm_n16(n, kin),
                                   !.fails = SnormFaults(n, kin)]
    /\ UNCHANGED <<kin, dvars, mvars, avars, evars, hvars, svars>>

\* fp16::n8, fp16::n16, fp16::f32, and fp::n8, fp::n16 applied to fp16::f32
ApplyFp16 ==
    /\ kout.op = "none"
    /\ kout' = [NoKout EXCEPT !.op = "fp16", !.n = 16,
                              !.n8 = fp16_n8(kin), !.n16 = fp16_n16(kin),
                              !.f = fp16_f32(kin),
                              !.via8 = fp_n8(fp16_f32(kin)),
                              !.via16 = fp_n16(fp16_f32(kin)),
                              !.fails = FpFaults(10, kin % 32768)]
    /\ UNCHANGED <<kin, dvars, mvars, avars, evars, hvars, svars>>

\* bc6h_uf16::n8, n16, f32 for a value they accept (positive, neither Inf nor NaN)
ApplyBc6hUf16 ==
    /\ kout.op = "none"
    /\ ~Fp16Sign(kin)
    /\ Fp16Exp(kin) < 31
    /\ kout' = [NoKout EXCEPT !.op = "bc6h_uf16", !.n = 16,
                              !.n8 = bc6h_uf16_n8(kin), !.n16 = bc6h_uf16_n16(kin),
                              !.f = bc6h_uf16_f32(kin)]
    /\ UNCHANGED <<kin, dvars, mvars, avars, evars, hvars, svars>>


----------------------------------------------------------------------------
(* decode/convert.rs: B5G6R5 and the interpolated colors of BC1 *)

\* B5G6R5::from_u16
B5G6R5_from_u16(u) ==
    [b5 |-> u % 32, g6 |-> (u \div 32) % 64, r5 |-> (u \div 2048) % 32]

\* one_third_color_rgb8 without the rounding terms 61 and 1039.
one_third_color_rgb8_no_bias(self, color) ==
    << AsU8(((self.r5 * 2 + color.r5) * 351) \div 128),
       AsU8(((self.g6 * 2 + color.g6) * 2763) \div 2048),
       AsU8(((self.b5 * 2 + color.b5) * 351) \div 128) >>
\* B5G6R5::one_third_color_rgb8: r and b in u16, g in u32
one_third_color_rgb8(self, color) ==
    LET r == AsU16(self.r5 * 2 + color.r5)
        g == AsU16(self.g6 * 2 + color.g6)
        b == AsU16(self.b5 * 2 + color.b5)
    IN  << AsU8(AsU16(r * 351 + 61) \div 128),
           AsU8((g * 2763 + 1039) \div 2048),
           AsU8(AsU16(b * 351 + 61) \div 128) >>

\* mid_color_rgb8 with the sums halved towards zero in 8 bits.
mid_color_rgb8_truncating(self, color) ==
    << (n5_n8(self.r5) + n5_n8(color.r5)) \div 2,
       (n6_n8(self.g6) + n6_n8(color.g6)) \div 2,
       (n5_n8(self.b5) + n5_n8(color.b5)) \div 2 >>
\* B5G6R5::mid_color_rgb8: r and b in u16, g in u32
mid_color_rgb8(self, color) ==
    LET r == AsU16(self.r5 + color.r5)
        g == AsU16(self.g6 + color.g6)
        b == AsU16(self.b5 + color.b5)
    IN  << AsU8(AsU16(r * 1053 + 125) \div 256),
           AsU8((g * 4145 + 1019) \div 2048),
           AsU8(AsU16(b * 1053 + 125) \div 256) >>

\* The 16-bit colors whose channels are (j % 32, j, j % 32) for j in 0 .. 63:
\* a pair of them gives every pair of 5-bit and every pair of 6-bit values;
\* the first is 0x0000 and the last 0xFFFF.
DiagonalColors == {(j % 32) * 2048 + j * 32 + (j % 32) : j \in 0 .. 63}

\* A color endpoint c0 of a BC1 block.
BInit ==
    /\ kin \in DiagonalColors
    /\ kout = NoKout

\* The two interpolated colors of the endpoints kin and c1.
ApplyBc1Colors ==
    /\ kout.op = "none"
    /\ \E c1 \in DiagonalColors :
         LET self == B5G6R5_from_u16(kin)
             color == B5G6R5_from_u16(c1)
         IN  kout' = [NoKout EXCEPT !.op = "bc1", !.n = c1,
                                    !.third = one_third_color_rgb8(self, color),
                                    !.mid = mid_color_rgb8(self, color)]
    /\ UNCHANGED <<kin, dvars, mvars, avars, evars, hvars, svars>>

BNext == ApplyBc1Colors

----------------------------------------------------------------------------
(* The kernels of the packed formats applied to one bit pattern *)

\* xr10::n8 and xr10::n16 for a 10-bit value
ApplyXr10 ==
    /\ kout.op = "none"
    /\ kin < Pow2(10)
    /\ kout' = [NoKout EXCEPT !.op = "xr10", !.n = 10,
                              !.n8 = xr10_n8(kin), !.n16 = xr10_n16(kin),
                              !.f = xr10_f32(kin),
                              !.via8 = fp_n8(xr10_f32(kin)),
                              !.via16 = fp_n16(xr10_f32(kin)),
                              !.fails = Xr10Faults(kin)]
    /\ UNCHANGED <<kin, dvars, mvars, avars, evars, hvars, svars>>

\* fp11::n8, fp11::n16 for an 11-bit value; fp10::n8, fp10::n16 for a 10-bit value
ApplyFp11Fp10 ==
    /\ kout.op = "none"
    /\ \/ /\ kin < Pow2(11)
          /\ kout' = [NoKout EXCEPT !.op = "fp11", !.n = 11,
                                    !.n8 = fp11_n8(kin), !.n16 = fp11_n16(kin),
                                    !.f = fp11_f32(kin),
                                    !.via8 = fp_n8(fp11_f32(kin)),
                                    !.via16 = fp_n16(fp11_f32(kin)),
                                    !.fails = FpFaults(6, kin)]
       \/ /\ kin < Pow2(10)
          /\ kout' = [NoKout EXCEPT !.op = "fp10", !.n = 10,
                                    !.n8 = fp10_n8(kin), !.n16 = fp10_n16(kin),
                                    !.f = fp10_f32(kin),
                                    !.via8 = fp_n8(fp10_f32(kin)),
                                    !.via16 = fp_n16(fp10_f32(kin)),
                                    !.fails = FpFaults(5, kin)]
    /\ UNCHANGED <<kin, dvars, mvars, avars, evars, hvars, svars>>

\* B5G6R5::from_u16 and to_n8, B5G5R5A1::from_u16 and to_n8 for a 16-bit word
ApplyFromU16 ==
    /\ kout.op = "none"
    /\ \/ LET c == B5G6R5_from_u16(kin)
          IN  kout' = [NoKout EXCEPT !.op = "b5g6r5", !.n = 16,
                                     !.parts = <<c.r5, c.g6, c.b5>>,
                                     !.color8 = <<n5_n8(AsU8(c.r5)), n6_n8(AsU8(c.g6)),
                                                  n5_n8(AsU8(c.b5))>>,
                                     !.fails = PartFaults(<<5, 6, 5>>, <<c.r5, c.g6, c.b5>>)]
       \/ LET c == B5G5R5A1_from_u16(kin)
          IN  kout' = [NoKout EXCEPT !.op = "b5g5r5a1", !.n = 16,
                                     !.parts = <<c.r5, c.g5, c.b5, c.a1>>,
                                     !.color8 = <<n5_n8(AsU8(c.r5)), n5_n8(AsU8(c.g5)),
                                                  n5_n8(AsU8(c.b5)), n1_n8(AsU8(c.a1))>>,
                                     !.fails = PartFaults(<<5, 5, 5, 1>>,
                                                          <<c.r5, c.g5, c.b5, c.a1>>)]
    /\ UNCHANGED <<kin, dvars, mvars, avars, evars, hvars, svars>>

\* rgb9995f::n8, n16 and f32 for a word whose exponent and red mantissa are
\* the 14 low bits of the pattern; the green mantissa is the complement of the
\* red one and the blue mantissa one of 0, 1, 256 and 511.
ApplyRgb9995f ==
    /\ kout.op = "none"
    /\ kin < Pow2(14)
    /\ \E b_mant \in {0, 1, 256, 511} :
        LET rgb == Rgb9995(kin \div 512, kin % 512, 511 - (kin % 512), b_mant)
            floats == rgb9995f_f32(rgb)
        IN  kout' = [NoKout EXCEPT !.op = "rgb9995f", !.n = 14,
                                   !.parts = rgb.mants,
                                   !.color8 = rgb9995f_n8(rgb),
                                   !.color16 = rgb9995f_n16(rgb),
                                   !.via_color8 = [i \in 1 .. 3 |-> fp_n8(floats[i])],
                                   !.via_color16 = [i \in 1 .. 3 |-> fp_n16(floats[i])]]
    /\ UNCHANGED <<kin, dvars, mvars, avars, evars, hvars, svars>>

KNext ==
    \/ ApplyUnorm \/ ApplySnorm \/ ApplyFp16 \/ ApplyBc6hUf16
    \/ ApplyXr10 \/ ApplyFp11Fp10 \/ ApplyFromU16 \/ ApplyRgb9995f

----------------------------------------------------------------------------
(* decode/adapt.rs: the channel adapter *)

\* Norm::ZERO and Norm::ONE of a precision, as the value's native bit pattern
\* (1.0f32 is 0x3F800000).
NormZero(p) == 0
NormOne(p) == CASE p = "U8" -> 255 [] p = "U16" -> 65535 [] p = "F32" -> 1065353216

alpha_to_rgba(pixel, p) == <<NormZero(p), NormZero(p), NormZero(p), pixel[1]>>
grayscale_to_rgb(pixel, p) == <<pixel[1], pixel[1], pixel[1]>>
grayscale_to_rgba(pixel, p) == <<pixel[1], pixel[1], pixel[1], NormOne(p)>>
rgb_to_grayscale(pixel, p) == <<pixel[1]>>
rgb_to_rgba(pixel, p) == <<pixel[1], pixel[2], pixel[3], NormOne(p)>>
rgba_to_grayscale(pixel, p) == <<pixel[1]>>
\* rgba_to_alpha taking the first channel.
rgba_to_alpha_first(pixel, p) == <<pixel[1]>>
rgba_to_alpha(pixel, p) == <<pixel[4]>>
rgba_to_rgb(pixel, p) == <<pixel[1], pixel[2], pixel[3]>>

\* The function adapt_for hands to Adapter::map for a pair of channels.
MapFn(from, to, pixel, p) ==
    CASE from = "Grayscale" /\ to = "Rgb" -> grayscale_to_rgb(pixel, p)
      [] from = "Grayscale" /\ to = "Rgba" -> grayscale_to_rgba(pixel, p)
      [] from = "Alpha" /\ to = "Rgba" -> alpha_to_rgba(pixel, p)
      [] from = "Rgb" /\ to = "Grayscale" -> rgb_to_grayscale(pixel, p)
      [] from = "Rgb" /\ to = "Rgba" -> rgb_to_rgba(pixel, p)
      [] from = "Rgba" /\ to = "Grayscale" -> rgba_to_grayscale(pixel, p)
      [] from = "Rgba" /\ to = "Alpha" -> rgba_to_alpha(pixel, p)
      [] from = "Rgba" /\ to = "Rgb" -> rgba_to_rgb(pixel, p)

\* What adapt / adapt_for call on the adapter for a pair of channels.
AdaptCall(from, to) ==
    IF from = to THEN "direct"
    ELSE IF from \in {"Grayscale", "Rgb"} /\ to = "Alpha" THEN "fill_one"
    ELSE IF from = "Alpha" /\ to \in {"Grayscale", "Rgb"} THEN "fill_zero"
    ELSE "map"

\* const BUFFER_PIXELS: usize = 64
BUFFER_PIXELS == 64

\* The process function decodes encoded pixel i (counted from 1) to this pixel
\* of the channels `from`; the values differ by pixel and by channel.
Sample(p, i, c) ==
    CASE p = "U8" -> (7 * i + 3 * c) % 256
      [] p = "U16" -> (263 * i + 3 * c) % 65536
      [] p = "F32" -> 1056964608 + 7 * i + 3 * c
ProcessPixel(from, p, i) == [c \in 1 .. ChannelCount(from) |-> Sample(p, i, c)]

\* Pixel counts tried: one pixel, around one staging buffer, several buffers.
PixelCounts == {1, 63, 64, 65, 130}
EncodedBpps == {1, 4}

\* A pixel of the staging buffer or of the output that was not written yet.
Unwritten == <<-1>>
\* [From; BUFFER_PIXELS] of Default::default()
DefaultPixel(from) == [c \in 1 .. ChannelCount(from) |-> 0]

NoAdp == [pc |-> "idle", from |-> "Grayscale", to |-> "Grayscale", precision |-> "U8",
          pixels |-> 0, encoded_bpp |-> 0, next |-> 0, calls |-> 0,
          buffer |-> <<>>, decoded |-> <<>>]

AInit == adp = NoAdp
AIdle == adp = NoAdp

\* adapt, adapt_for, UncompressedAdapter::direct and ::fill, and the set-up of
\* UncompressedAdapter::map
Adapt ==
    /\ adp.pc = "idle"
    /\ \E from \in Channels, to \in Channels, p \in Precisions,
          pixels \in PixelCounts, encoded_bpp \in EncodedBpps :
         LET a == [NoAdp EXCEPT !.from = from, !.to = to, !.precision = p,
                                !.pixels = pixels, !.encoded_bpp = encoded_bpp]
             op == AdaptCall(from, to)
         IN  adp' =
               CASE op = "direct" ->
                      [a EXCEPT !.pc = "done", !.calls = 1,
                                !.decoded = [i \in 1 .. pixels |-> ProcessPixel(from, p, i)]]
                 [] op = "fill_one" ->
                      [a EXCEPT !.pc = "done",
                                !.decoded = [i \in 1 .. pixels |->
                                               [c \in 1 .. ChannelCount(to) |-> NormOne(p)]]]
                 [] op = "fill_zero" ->
                      [a EXCEPT !.pc = "done",
                                !.decoded = [i \in 1 .. pixels |->
                                               [c \in 1 .. ChannelCount(to) |-> NormZero(p)]]]
                 [] op = "map" ->
                      [a EXCEPT !.pc = "map",
                                !.buffer = [j \in 1 .. BUFFER_PIXELS |-> DefaultPixel(from)],
                                !.decoded = [i \in 1 .. pixels |-> Unwritten]]
    /\ UNCHANGED <<dvars, mvars, kvars, evars, hvars, svars>>

\* One iteration of the loop of UncompressedAdapter::map over
\* encoded.chunks(BUFFER_PIXELS * encoded_bpp).zip(decoded.chunks_mut(BUFFER_PIXELS)):
\* the process function fills the front of the staging buffer, the pixels are
\* converted into the output chunk; or the end of the loop.
MapChunk ==
    /\ adp.pc = "map"
    /\ LET encodedLen == adp.pixels * adp.encoded_bpp
           encodedAt == adp.next * adp.encoded_bpp
           encodedChunk == Min(BUFFER_PIXELS * adp.encoded_bpp, encodedLen - encodedAt)
           decodedChunk == Min(BUFFER_PIXELS, adp.pixels - adp.next)
           first == encodedAt \div adp.encoded_bpp
           buffer == [j \in 1 .. BUFFER_PIXELS |->
                        IF j <= decodedChunk /\ j <= encodedChunk \div adp.encoded_bpp
                        THEN ProcessPixel(adp.from, adp.precision, first + j)
                        ELSE adp.buffer[j]]
       IN  IF encodedChunk = 0 \/ decodedChunk = 0
           THEN adp' = [adp EXCEPT !.pc = "done"]
           ELSE adp' = [adp EXCEPT
                          !.buffer = buffer,
                          !.calls = @ + 1,
                          !.next = @ + decodedChunk,
                          !.decoded = [i \in 1 .. adp.pixels |->
                                         IF adp.next < i /\ i <= adp.next + decodedChunk
                                         THEN MapFn(adp.from, adp.to, buffer[i - adp.next],
                                                    adp.precision)
                                         ELSE @[i]]]
    /\ UNCHANGED <<dvars, mvars, kvars, evars, hvars, svars>>

ANext == Adapt \/ MapChunk

----------------------------------------------------------------------------
(* encode/uncompressed.rs: the tiled encoders *)

\* const BUFFER_PIXELS: usize = 512 (uncompressed_universal and _subsample)
ENC_BUFFER_PIXELS == 512

\* usize division rounding up (util::div_ceil)
div_ceil(a, b) == (a + b - 1) \div b

\* The value of input pixel i (counted from 0) and what the per-format
\* function makes of one pixel; both differ from pixel to pixel.
SourcePixel(i) == (37 * i + 11) % 1009
EncodePixel(v) == 2 * v + 1

\* The pixels of the next chunk of data.chunks(chunk_size), cut at the end of
\* the data, without the cut for the mutated variant.
ChunkPixelsUncut(chunk_pixels, pixels_total, done) == chunk_pixels
ChunkPixels(chunk_pixels, pixels_total, done) == Min(chunk_pixels, pixels_total - done)

\* The `?` after writer.write_all: the loop goes on after Ok and the call
\* returns after Err; without the return for the mutated variant.
AfterWriteIgnoringErr(ok, loop) == loop
AfterWrite(ok, loop) == IF ok THEN loop ELSE "done"

\* Pixel counts of the input: none, one, around one and two staging buffers.
EncodePixelCounts == {0, 1, 511, 512, 513, 1024, 1025}
\* The number of the write_all call that fails (0: none fails).
WriterFailures == {0, 1, 2, 3}

NoEnc == [pc |-> "idle", op |-> "none", pixels |-> 0, width |-> 0, bpp |-> 0,
          block_width |-> 0, done |-> 0, row |-> 0, calls |-> 0, failAt |-> 0,
          partial |-> 0, result |-> "none", buffer |-> <<>>, maxLen |-> 0,
          writes |-> <<>>]

EInit == enc = NoEnc
EIdle == enc = NoEnc

\* The outcome of one writer.write_all(buf) on the state e: the call is
\* counted; Ok appends buf to what was written; Err leaves an unspecified
\* part of buf written (here none or half of it) and ends the call.
WriteAll(e, buf, loop, part) ==
    LET n == e.calls + 1
        ok == n # e.failAt
    IN  [e EXCEPT !.calls = n,
                  !.writes = IF ok THEN Append(@, buf) ELSE @,
                  !.partial = IF ok THEN @ ELSE part * (Len(buf) \div 2),
                  !.result = IF ok THEN @ ELSE "Io",
                  !.pc = AfterWrite(ok, loop)]

\* uncompressed_universal up to its loop: the arguments and the two buffers.
UniversalStart ==
    /\ enc.pc = "idle"
    /\ \E pixels \in EncodePixelCounts, bpp \in {1, 16}, failAt \in WriterFailures :
         enc' = [NoEnc EXCEPT !.pc = "tiles", !.op = "universal", !.pixels = pixels,
                              !.bpp = bpp, !.failAt = failAt,
                              !.buffer = [j \in 1 .. ENC_BUFFER_PIXELS |-> 0]]
    /\ UNCHANGED <<dvars, mvars, avars, kvars, hvars, svars>>

\* One iteration of `for line in data.chunks(chunk_size)` of
\* uncompressed_universal: convert_to_rgba_f32, process, to_le, write_all; or
\* the end of the loop.
UniversalTile ==
    /\ enc.pc = "tiles"
    /\ enc.op = "universal"
    /\ LET chunk_size == ENC_BUFFER_PIXELS * enc.bpp
           at == enc.done * enc.bpp
           line_len == ChunkPixels(ENC_BUFFER_PIXELS, enc.pixels, enc.done) * enc.bpp
           pixels == line_len \div enc.bpp
           buffer == [j \in 1 .. ENC_BUFFER_PIXELS |->
                        IF j <= pixels
                        THEN EncodePixel(SourcePixel((at \div enc.bpp) + j - 1))
                        ELSE enc.buffer[j]]
           encoded == SubSeq(buffer, 1, pixels)
       IN  IF at >= enc.pixels * enc.bpp
           THEN enc' = [enc EXCEPT !.pc = "done", !.result = "Ok"]
           ELSE \E part \in {0, 1} :
                  enc' = WriteAll([enc EXCEPT !.buffer = buffer,
                                              !.done = @ + pixels,
                                              !.maxLen = Max(@, pixels)],
                                  encoded, "tiles", part)
    /\ UNCHANGED <<dvars, mvars, avars, kvars, hvars, svars>>

\* let mut encoded_buffer = [EncodedBlock::default(); BUFFER_PIXELS / 2]
EncodedBlocksLen == ENC_BUFFER_PIXELS \div 2

\* The last, partial block of process_subsample with the missing pixels left
\* at their initial value (-1 stands for the pixel [0.0; 4]).
LastBlockZeroFilled(first, rest, bw) ==
    [t \in 1 .. bw |-> IF t <= rest THEN first + t - 1 ELSE -1]
\* last_block[..rest].copy_from_slice(&data[full_blocks_len..]);
\* last_block[rest..].fill(data[data.len() - 1])
\* A block is given by the positions in the input of the pixels it is made of.
LastBlock(first, rest, bw) ==
    [t \in 1 .. bw |-> IF t <= rest THEN first + t - 1 ELSE first + rest - 1]

\* process_subsample on the `pixels` pixels of the input from position `first`
\* on: what it writes to out[0 ..], and the largest index of out it uses.
ProcessSubsample(first, pixels, bw) ==
    LET full == pixels \div bw
        rest == pixels - full * bw
    IN  [out |-> [b \in 1 .. full + (IF rest > 0 THEN 1 ELSE 0) |->
                    IF b <= full
                    THEN [t \in 1 .. bw |-> first + (b - 1) * bw + t - 1]
                    ELSE LastBlock(first + full * bw, rest, bw)],
         last |-> IF rest > 0 THEN full ELSE full - 1]

\* Widths and heights of the input: narrower than a block, around a block,
\* around and beyond one staging buffer.
SubsampleWidths == {1, 2, 3, 7, 8, 9, 512, 513, 1025}
SubsampleHeights == {1, 2, 3}

\* uncompressed_universal_subsample up to its loops.
SubsampleStart ==
    /\ enc.pc = "idle"
    /\ \E width \in SubsampleWidths, height \in SubsampleHeights, bpp \in {1, 16},
          block_width \in {2, 8}, failAt \in WriterFailures :
         enc' = [NoEnc EXCEPT !.pc = "rows", !.op = "subsample",
                              !.pixels = width * height, !.width = width,
                              !.bpp = bpp, !.block_width = block_width,
                              !.failAt = failAt,
                              !.buffer = [j \in 1 .. EncodedBlocksLen |-> <<>>]]
    /\ UNCHANGED <<dvars, mvars, avars, kvars, hvars, svars>>

\* One iteration of the inner loop `for chunk in y_line.chunks(chunk_size)` of
\* uncompressed_universal_subsample, of the row enc.row from the pixel
\* enc.done of the row on; or the end of the outer loop.
SubsampleChunk ==
    /\ enc.pc = "rows"
    /\ enc.op = "subsample"
    /\ LET row_start == enc.row * enc.width
           y_line_len == Min(enc.width, enc.pixels - row_start) * enc.bpp
           chunk_len == ChunkPixels(ENC_BUFFER_PIXELS, y_line_len \div enc.bpp, enc.done)
                          * enc.bpp
           pixels == chunk_len \div enc.bpp
           blocks == div_ceil(pixels, enc.block_width)
           p == ProcessSubsample(row_start + enc.done, pixels, enc.block_width)
           buffer == [j \in 1 .. EncodedBlocksLen |->
                        IF j <= Len(p.out) THEN p.out[j] ELSE enc.buffer[j]]
           rowEnds == enc.done + pixels >= enc.width
       IN  IF row_start >= enc.pixels
           THEN enc' = [enc EXCEPT !.pc = "done", !.result = "Ok"]
           ELSE IF blocks > EncodedBlocksLen \/ p.last + 1 > blocks
           THEN enc' = [enc EXCEPT !.pc = "done", !.result = "panic",
                                   !.maxLen = Max(@, Max(blocks, p.last + 1))]
           ELSE \E part \in {0, 1} :
                  enc' = WriteAll([enc EXCEPT !.buffer = buffer,
                                              !.row = IF rowEnds THEN @ + 1 ELSE @,
                                              !.done = IF rowEnds THEN 0 ELSE @ + pixels,
                                              !.maxLen = Max(@, blocks)],
                                  SubSeq(buffer, 1, blocks), "rows", part)
    /\ UNCHANGED <<dvars, mvars, avars, kvars, hvars, svars>>

\* let mut raw_buffer = [0_u32; 1024]; its length in bytes
RawBufferBytes == 4096

\* The decoded and the encoded pixel sizes in bytes of the encoders built on
\* uncompressed_untyped (color_convert!, the BGR encoders): any channels of
\* the precision of the target.
UntypedPixelSizes ==
    {<<1, 1>>, <<3, 1>>, <<4, 1>>, <<1, 3>>, <<4, 3>>, <<1, 4>>, <<3, 4>>, <<4, 4>>,
     <<2, 2>>, <<8, 8>>, <<12, 12>>, <<16, 16>>, <<16, 4>>}
UntypedPixelCounts == {0, 1, 256, 257, 1400, 4200}

\* uncompressed_untyped up to its loop.
UntypedStart ==
    /\ enc.pc = "idle"
    /\ \E pixels \in UntypedPixelCounts, sizes \in UntypedPixelSizes,
          failAt \in WriterFailures :
         enc' = [NoEnc EXCEPT !.pc = "tiles", !.op = "untyped", !.pixels = pixels,
                              !.bpp = sizes[1], !.block_width = sizes[2],
                              !.failAt = failAt]
    /\ UNCHANGED <<dvars, mvars, avars, kvars, hvars, svars>>

\* One iteration of `for line in data.chunks(chuck_size)` of
\* uncompressed_untyped (enc.block_width holds bytes_per_encoded_pixel): the
\* slice of the encoded buffer, f, write_all; or the end of the loop. Taking
\* the slice panics when it is longer than the buffer.
UntypedTile ==
    /\ enc.pc = "tiles"
    /\ enc.op = "untyped"
    /\ LET chuck_size == (RawBufferBytes \div enc.bpp) * enc.bpp
           at == enc.done * enc.bpp
           line_len == ChunkPixels(chuck_size \div enc.bpp, enc.pixels, enc.done) * enc.bpp
           pixels == line_len \div enc.bpp
           encoded_len == pixels * enc.block_width
           encoded == [j \in 1 .. pixels |->
                         EncodePixel(SourcePixel((at \div enc.bpp) + j - 1))]
       IN  IF at >= enc.pixels * enc.bpp
           THEN enc' = [enc EXCEPT !.pc = "done", !.result = "Ok"]
           ELSE IF encoded_len > RawBufferBytes
           THEN enc' = [enc EXCEPT !.pc = "done", !.result = "panic",
                                   !.maxLen = Max(@, encoded_len)]
           ELSE \E part \in {0, 1} :
                  enc' = WriteAll([enc EXCEPT !.done = @ + pixels,
                                              !.maxLen = Max(@, encoded_len)],
                                  encoded, "tiles", part)
    /\ UNCHANGED <<dvars, mvars, avars, kvars, hvars, svars>>

ENext ==
    \/ UniversalStart \/ UniversalTile
    \/ SubsampleStart \/ SubsampleChunk
    \/ UntypedStart \/ UntypedTile

\* A decode call on a reader that may fail, when no encode call was made.
IoDecode ==
    /\ enc.pc = "idle"
    /\ Decode \/ ForEachPixelStep
\* An encode call on a writer that may fail, when no decode call was made.
IoEncode ==
    /\ pc = "idle"
    /\ ENext

(* detect.rs: DXGI formats, FourCC tags and supported formats *)

NoneFormat == "None"
NoFourCC == -1

\* The u32 of a tag of four ASCII bytes, little endian.
Tag(a, b, c, d) == a + b * 256 + c * 65536 + d * 16777216

\* FourCC::<name> by its four ASCII letters; FourCC(n) is n itself.
FourCC(name) ==
    CASE name = "DXT1" -> Tag(68, 88, 84, 49)
      [] name = "DXT2" -> Tag(68, 88, 84, 50)
      [] name = "DXT3" -> Tag(68, 88, 84, 51)
      [] name = "DXT4" -> Tag(68, 88, 84, 52)
      [] name = "DXT5" -> Tag(68, 88, 84, 53)
      [] name = "ATI1" -> Tag(65, 84, 73, 49)
      [] name = "ATI2" -> Tag(65, 84, 73, 50)
      [] name = "BC4U" -> Tag(66, 67, 52, 85)
      [] name = "BC4S" -> Tag(66, 67, 52, 83)
      [] name = "BC5U" -> Tag(66, 67, 53, 85)
      [] name = "BC5S" -> Tag(66, 67, 53, 83)
      [] name = "RGBG" -> Tag(82, 71, 66, 71)
      [] name = "GRGB" -> Tag(71, 82, 71, 66)
      [] name = "YUY2" -> Tag(89, 85, 89, 50)
      [] name = "UYVY" -> Tag(85, 89, 86, 89)
      [] name = "RXGB" -> Tag(82, 88, 71, 66)

\* The value of the first arm of a match whose pattern accepts x, else none.
MatchArms(arms, x, none) ==
    LET hits == {i \in DOMAIN arms : x \in arms[i][1]}
    IN  IF hits = {} THEN none
        ELSE arms[CHOOSE i \in hits : \A j \in hits : i <= j][2]

\* The arms of dxgi_format_to_supported, in order.
DxgiToSupportedArms ==
    <<
       <<{"R8G8B8A8_TYPELESS", "R8G8B8A8_UNORM", "R8G8B8A8_UNORM_SRGB"}, "R8G8B8A8_UNORM">>,
       <<{"R8G8B8A8_SNORM"}, "R8G8B8A8_SNORM">>,
       <<{"B8G8R8A8_TYPELESS", "B8G8R8A8_UNORM", "B8G8R8A8_UNORM_SRGB"}, "B8G8R8A8_UNORM">>,
       <<{"B8G8R8X8_TYPELESS", "B8G8R8X8_UNORM", "B8G8R8X8_UNORM_SRGB"}, "B8G8R8X8_UNORM">>,
       <<{"B5G6R5_UNORM"}, "B5G6R5_UNORM">>,
       <<{"B5G5R5A1_UNORM"}, "B5G5R5A1_UNORM">>,
       <<{"B4G4R4A4_UNORM"}, "B4G4R4A4_UNORM">>,
       <<{"A4B4G4R4_UNORM"}, "A4B4G4R4_UNORM">>,
       <<{"R8_TYPELESS", "R8_UNORM"}, "R8_UNORM">>,
       <<{"R8_SNORM"}, "R8_SNORM">>,
       <<{"R8G8_UNORM"}, "R8G8_UNORM">>,
       <<{"R8G8_SNORM"}, "R8G8_SNORM">>,
       <<{"A8_UNORM"}, "A8_UNORM">>,
       <<{"R16_TYPELESS", "R16_UNORM"}, "R16_UNORM">>,
       <<{"R16_SNORM"}, "R16_SNORM">>,
       <<{"R16_FLOAT"}, "R16_FLOAT">>,
       <<{"R16G16_TYPELESS", "R16G16_UNORM"}, "R16G16_UNORM">>,
       <<{"R16G16_SNORM"}, "R16G16_SNORM">>,
       <<{"R16G16_FLOAT"}, "R16G16_FLOAT">>,
       <<{"R16G16B16A16_TYPELESS", "R16G16B16A16_UNORM"}, "R16G16B16A16_UNORM">>,
       <<{"R16G16B16A16_SNORM"}, "R16G16B16A16_SNORM">>,
       <<{"R16G16B16A16_FLOAT"}, "R16G16B16A16_FLOAT">>,
       <<{"R10G10B10A2_TYPELESS", "R10G10B10A2_UNORM"}, "R10G10B10A2_UNORM">>,
       <<{"R11G11B10_FLOAT"}, "R11G11B10_FLOAT">>,
       <<{"R9G9B9E5_SHAREDEXP"}, "R9G9B9E5_SHAREDEXP">>,
       <<{"R32_TYPELESS", "R32_FLOAT"}, "R32_FLOAT">>,
       <<{"R32G32_TYPELESS", "R32G32_FLOAT"}, "R32G32_FLOAT">>,
       <<{"R32G32B32_TYPELESS", "R32G32B32_FLOAT"}, "R32G32B32_FLOAT">>,
       <<{"R32G32B32A32_TYPELESS", "R32G32B32A32_FLOAT"}, "R32G32B32A32_FLOAT">>,
       <<{"R10G10B10_XR_BIAS_A2_UNORM"}, "R10G10B10_XR_BIAS_A2_UNORM">>,
       <<{"AYUV"}, "AYUV">>,
       <<{"Y410"}, "Y410">>,
       <<{"Y416"}, "Y416">>,
       <<{"R8G8_B8G8_UNORM"}, "R8G8_B8G8_UNORM">>,
       <<{"G8R8_G8B8_UNORM"}, "G8R8_G8B8_UNORM">>,
       <<{"YUY2"}, "YUY2">>,
       <<{"Y210"}, "Y210">>,
       <<{"Y216"}, "Y216">>,
       <<{"R1_UNORM"}, "R1_UNORM">>,
       <<{"BC1_TYPELESS", "BC1_UNORM", "BC1_UNORM_SRGB"}, "BC1_UNORM">>,
       <<{"BC2_TYPELESS", "BC2_UNORM", "BC2_UNORM_SRGB"}, "BC2_UNORM">>,
       <<{"BC3_TYPELESS", "BC3_UNORM", "BC3_UNORM_SRGB"}, "BC3_UNORM">>,
       <<{"BC4_TYPELESS", "BC4_UNORM"}, "BC4_UNORM">>,
       <<{"BC4_SNORM"}, "BC4_SNORM">>,
       <<{"BC5_TYPELESS", "BC5_UNORM"}, "BC5_UNORM">>,
       <<{"BC5_SNORM"}, "BC5_SNORM">>,
       <<{"BC6H_TYPELESS", "BC6H_UF16"}, "BC6H_UF16">>,
       <<{"BC6H_SF16"}, "BC6H_SF16">>,
       <<{"BC7_TYPELESS", "BC7_UNORM", "BC7_UNORM_SRGB"}, "BC7_UNORM">>
    >>

\* dxgi_format_to_supported
dxgi_format_to_supported(dxgi_format) ==
    MatchArms(DxgiToSupportedArms, dxgi_format, NoneFormat)

\* special_cases
special_cases(dx10) ==
    IF dx10.alpha_mode = "Premultiplied"
    THEN CASE dx10.dxgi_format = "BC2_UNORM" -> "BC2_UNORM_PREMULTIPLIED_ALPHA"
           [] dx10.dxgi_format = "BC3_UNORM" -> "BC3_UNORM_PREMULTIPLIED_ALPHA"
           [] OTHER -> NoneFormat
    ELSE NoneFormat

\* The arms of four_cc_to_dxgi for the FourCC constants.
FourCcNamedArms ==
    << <<{FourCC("DXT1")}, "BC1_UNORM">>,
       <<{FourCC("DXT3")}, "BC2_UNORM">>,
       <<{FourCC("DXT5")}, "BC3_UNORM">>,
       <<{FourCC("ATI1")}, "BC4_UNORM">>,
       <<{FourCC("BC4U")}, "BC4_UNORM">>,
       <<{FourCC("BC4S")}, "BC4_SNORM">>,
       <<{FourCC("ATI2")}, "BC5_UNORM">>,
       <<{FourCC("BC5U")}, "BC5_UNORM">>,
       <<{FourCC("BC5S")}, "BC5_SNORM">>,
       <<{FourCC("RGBG")}, "R8G8_B8G8_UNORM">>,
       <<{FourCC("GRGB")}, "G8R8_G8B8_UNORM">>,
       <<{FourCC("YUY2")}, "YUY2">> >>
\* The arms of four_cc_to_dxgi for the D3DFORMAT constants.
FourCcD3dArms ==
    << <<{36}, "R16G16B16A16_UNORM">>,
       <<{110}, "R16G16B16A16_SNORM">>,
       <<{111}, "R16_FLOAT">>,
       <<{112}, "R16G16_FLOAT">>,
       <<{113}, "R16G16B16A16_FLOAT">>,
       <<{114}, "R32_FLOAT">>,
       <<{115}, "R32G32_FLOAT">>,
       <<{116}, "R32G32B32A32_FLOAT">> >>

\* four_cc_to_dxgi without the arms of the D3DFORMAT constants.
four_cc_to_dxgi_named_only(four_cc) ==
    MatchArms(FourCcNamedArms, four_cc, NoneFormat)
\* four_cc_to_dxgi
four_cc_to_dxgi(four_cc) ==
    MatchArms(FourCcNamedArms \o FourCcD3dArms, four_cc, NoneFormat)

\* dxgi_to_four_cc
dxgi_to_four_cc(dxgi) ==
    MatchArms(<< <<{"BC1_UNORM"}, FourCC("DXT1")>>,
                 <<{"BC2_UNORM"}, FourCC("DXT3")>>,
                 <<{"BC3_UNORM"}, FourCC("DXT5")>>,
                 <<{"BC4_UNORM"}, FourCC("BC4U")>>,
                 <<{"BC4_SNORM"}, FourCC("BC4S")>>,
                 <<{"BC5_UNORM"}, FourCC("BC5U")>>,
                 <<{"BC5_SNORM"}, FourCC("BC5S")>>,
                 <<{"R8G8_B8G8_UNORM"}, FourCC("RGBG")>>,
                 <<{"G8R8_G8B8_UNORM"}, FourCC("GRGB")>>,
                 <<{"YUY2"}, FourCC("YUY2")>>,
                 <<{"R16G16B16A16_UNORM"}, 36>>,
                 <<{"R16G16B16A16_SNORM"}, 110>>,
                 <<{"R16_FLOAT"}, 111>>,
                 <<{"R16G16_FLOAT"}, 112>>,
                 <<{"R16G16B16A16_FLOAT"}, 113>>,
                 <<{"R32_FLOAT"}, 114>>,
                 <<{"R32G32_FLOAT"}, 115>>,
                 <<{"R32G32B32A32_FLOAT"}, 116>> >>,
              dxgi, NoFourCC)

\* four_cc_to_supported
four_cc_to_supported(four_cc) ==
    IF four_cc_to_dxgi(four_cc) # NoneFormat
    THEN dxgi_format_to_supported(four_cc_to_dxgi(four_cc))
    ELSE CASE four_cc = FourCC("DXT2") -> "BC2_UNORM_PREMULTIPLIED_ALPHA"
           [] four_cc = FourCC("DXT4") -> "BC3_UNORM_PREMULTIPLIED_ALPHA"
           [] four_cc = FourCC("RXGB") -> "BC3_UNORM_RXGB"
           [] four_cc = FourCC("UYVY") -> "UYVY"
           [] OTHER -> NoneFormat

\* pixel_format_to_supported on a pixel format given by the format of the
\* first pattern of KNOWN_PIXEL_FORMATS it matches ("None" when it matches
\* no pattern).
pixel_format_to_supported(pf) == pf

\* The DXGI formats: those dxgi_format_to_supported names and some it does not.
DxgiFormats ==
    UNION {DxgiToSupportedArms[i][1] : i \in DOMAIN DxgiToSupportedArms}
        \cup {"UNKNOWN", "R32G32B32A32_UINT", "D32_FLOAT", "NV12"}

----------------------------------------------------------------------------
(* format.rs and lib.rs: a decoder from a header *)

\* SupportedFormat::from_header: the format or the error.
from_header(header) ==
    IF header.dxt10
    THEN IF dxgi_format_to_supported(header.dxgi_format) # NoneFormat
         THEN [kind |-> "Ok", format |-> dxgi_format_to_supported(header.dxgi_format)]
         ELSE [kind |-> "UnsupportedDxgiFormat", format |-> NoneFormat]
    ELSE IF header.four_cc # NoFourCC
    THEN IF four_cc_to_supported(header.four_cc) # NoneFormat
         THEN [kind |-> "Ok", format |-> four_cc_to_supported(header.four_cc)]
         ELSE [kind |-> "UnsupportedFourCC", format |-> NoneFormat]
    ELSE IF pixel_format_to_supported(header.pf) # NoneFormat
         THEN [kind |-> "Ok", format |-> pixel_format_to_supported(header.pf)]
         ELSE [kind |-> "UnsupportedPixelFormat", format |-> NoneFormat]

\* Options::default().max_array_size
DefaultMaxArraySize == 4096
\* Header::MAGIC.len(), Header::SIZE and HeaderDxt10::SIZE
MagicLen == 4
HeaderSize == 124
HeaderDxt10Size == 20
NoFileLen == -1

\* Width and height of the headers, and the bytes of a pixel of their layout.
HeaderWidth == 4
HeaderHeight == 4
LayoutBytesPerPixel == 4

\* util::get_mipmap_size
get_mipmap_size(main_size, level) ==
    IF main_size \div Pow2(level) # 0 THEN main_size \div Pow2(level) ELSE 1

\* The bytes of one texture with its mipmaps.
RECURSIVE TextureLen(_)
TextureLen(mipmaps) ==
    IF mipmaps = 0 THEN 0
    ELSE TextureLen(mipmaps - 1)
         + get_mipmap_size(HeaderWidth, mipmaps - 1)
           * get_mipmap_size(HeaderHeight, mipmaps - 1) * LayoutBytesPerPixel

\* data_len() of DataLayout::from_header_with: array_size textures (one
\* without a DX10 header), six times as many for cube maps; an empty array
\* has a layout of length 0.
LayoutDataLen(header) ==
    (IF header.dxt10 THEN header.array_size ELSE 1)
        * (IF header.cube THEN 6 ELSE 1) * TextureLen(header.mipmap_count)

\* get_expected_data_len, NoFileLen for None
get_expected_data_len(header, options) ==
    LET non_data == MagicLen + HeaderSize + (IF header.dxt10 THEN HeaderDxt10Size ELSE 0)
    IN  IF options.file_len = NoFileLen \/ options.file_len < non_data
        THEN NoFileLen
        ELSE options.file_len - non_data

\* The first mipmap guess adopted without a look at the length of its layout.
FixMipmapsUnchecked(header, expected) == [header EXCEPT !.mipmap_count = 1]
\* The first header among the mipmap guesses whose layout has the expected
\* length, else the header itself.
FixMipmaps(header, expected) ==
    LET max_levels == BitLen(Max(HeaderWidth, HeaderHeight))
        mipmap == header.mipmap_count
        guesses == <<1, max_levels, mipmap - 1, mipmap + 1>>
        good == {i \in 1 .. 4 :
                    /\ guesses[i] # 0
                    /\ LayoutDataLen([header EXCEPT !.mipmap_count = guesses[i]]) = expected}
    IN  IF good = {} THEN header
        ELSE [header EXCEPT !.mipmap_count = guesses[CHOOSE i \in good : \A j \in good : i <= j]]

\* No repair of array_size.
FixArraySizeSkipped(header, expected) == header
\* The repair of array_size = 0 in create_layout_and_fix_header.
FixArraySize(header, expected) ==
    IF expected > 0 /\ header.dxt10 /\ header.array_size = 0
    THEN [header EXCEPT !.array_size = 1]
    ELSE header

\* create_layout_and_fix_header: the header it leaves.
create_layout_and_fix_header(header, options) ==
    LET expected == get_expected_data_len(header, options)
        fixed == FixArraySize(header, expected)
        single == [fixed EXCEPT !.array_size = 1]
    IN  IF expected = NoFileLen THEN header
        ELSE IF LayoutDataLen(header) = expected THEN header
        ELSE IF fixed # header /\ LayoutDataLen(fixed) = expected THEN fixed
        ELSE IF /\ fixed.dxt10 /\ fixed.array_size = 6 /\ fixed.cube
                /\ LayoutDataLen(single) = expected
             THEN single
        ELSE FixMipmaps(fixed, expected)

\* The array_size limit with >= for >.
ArraySizeTooBigInclusive(header, options) ==
    header.dxt10 /\ header.array_size >= options.max_array_size
\* if dxt10.array_size > options.max_array_size
ArraySizeTooBig(header, options) ==
    header.dxt10 /\ header.array_size > options.max_array_size

NoHeader ==
    [dxt10 |-> FALSE, dxgi_format |-> "UNKNOWN", alpha_mode |-> "Unknown",
     four_cc |-> NoFourCC, pf |-> NoneFormat, array_size |-> 0, cube |-> FALSE,
     mipmap_count |-> 1]
NoOptions == [max_array_size |-> DefaultMaxArraySize, permissive |-> FALSE,
              file_len |-> NoFileLen]
NoHdr ==
    [pc |-> "idle", input |-> NoHeader, header |-> NoHeader, options |-> NoOptions,
     result |-> "none", value |-> 0, format |-> NoneFormat, data_len |-> 0,
     steps |-> <<>>, four_cc |-> NoFourCC, back |-> NoneFormat]

HIdle == hdr = NoHdr

\* The headers and options of the calls.
HeaderDxgiFormats ==
    {"BC1_UNORM", "BC2_UNORM", "BC2_UNORM_SRGB", "BC3_UNORM", "BC3_TYPELESS",
     "R8G8B8A8_UNORM", "UNKNOWN"}
AlphaModes == {"Unknown", "Straight", "Premultiplied"}
ArraySizes == {0, 1, 2, 6, DefaultMaxArraySize, DefaultMaxArraySize + 1}
MipmapCounts == {1, 2, 3}
HeaderFourCCs ==
    {FourCC("DXT1"), FourCC("DXT2"), FourCC("DXT3"), FourCC("DXT5"),
     FourCC("RXGB"), 36, 1}
MaxArraySizes == {1, DefaultMaxArraySize}
FileLens ==
    {NoFileLen, 100, 128, 148,
     148 + TextureLen(1), 148 + TextureLen(2), 148 + TextureLen(3),
     148 + 2 * TextureLen(1), 148 + 6 * TextureLen(1)}
Dx10Headers ==
    {[NoHeader EXCEPT !.dxt10 = TRUE, !.dxgi_format = d, !.alpha_mode = a,
                      !.array_size = n, !.cube = c, !.mipmap_count = m] :
        d \in HeaderDxgiFormats, a \in AlphaModes, n \in ArraySizes,
        c \in BOOLEAN, m \in MipmapCounts}
LegacyHeaders ==
    {[NoHeader EXCEPT !.four_cc = f, !.pf = p, !.mipmap_count = m] :
        f \in HeaderFourCCs \cup {NoFourCC}, p \in {NoneFormat, "R8G8_UNORM"},
        m \in MipmapCounts}
OptionSets ==
    {[max_array_size |-> x, permissive |-> p, file_len |-> l] :
        x \in MaxArraySizes, p \in BOOLEAN, l \in FileLens}

\* A header and options handed to from_header_with, or a DXGI format handed
\* to dxgi_to_four_cc.
HInit ==
    \/ \E h \in Dx10Headers \cup LegacyHeaders, o \in OptionSets :
         hdr = [NoHdr EXCEPT !.pc = "start", !.input = h, !.header = h, !.options = o]
    \/ \E d \in DxgiFormats :
         hdr = [NoHdr EXCEPT !.pc = "detect", !.input = [NoHeader EXCEPT !.dxgi_format = d]]

\* DdsDecoder::from_header_with
FromHeaderWith ==
    /\ hdr.pc = "start"
    /\ LET header == hdr.header
           options == hdr.options
           format == from_header(header)
           fixed == IF options.permissive
                    THEN create_layout_and_fix_header(header, options)
                    ELSE header
       IN  IF ArraySizeTooBig(header, options)
           THEN hdr' = [hdr EXCEPT !.pc = "done", !.result = "ArraySizeTooBig",
                                   !.value = header.array_size,
                                   !.steps = <<"array_size">>]
           ELSE IF format.kind # "Ok"
           THEN hdr' = [hdr EXCEPT !.pc = "done", !.result = format.kind,
                                   !.steps = <<"array_size", "format">>]
           ELSE hdr' = [hdr EXCEPT !.pc = "done", !.result = "Ok",
                                   !.format = format.format,
                                   !.header = fixed,
                                   !.data_len = LayoutDataLen(fixed),
                                   !.steps = <<"array_size", "format", "layout">>]
    /\ UNCHANGED <<dvars, mvars, avars, kvars, evars, svars>>

\* DXGI -> FourCC -> DXGI
DxgiFourCcRoundTrip ==
    /\ hdr.pc = "detect"
    /\ LET four_cc == dxgi_to_four_cc(hdr.input.dxgi_format)
       IN  hdr' = [hdr EXCEPT !.pc = "done", !.four_cc = four_cc,
                              !.back = IF four_cc = NoFourCC THEN NoneFormat
                                       ELSE four_cc_to_dxgi(four_cc)]
    /\ UNCHANGED <<dvars, mvars, avars, kvars, evars, svars>>

HNext == FromHeaderWith \/ DxgiFourCcRoundTrip

----------------------------------------------------------------------------
(* decode/decoder.rs: the decoder sets *)

\* The discriminants of Channels and of Precision, and ColorFormat::key.
ChannelsIndex(c) == CASE c = "Grayscale" -> 0 [] c = "Alpha" -> 1 [] c = "Rgb" -> 2 [] c = "Rgba" -> 3
PrecisionIndex(p) == CASE p = "U8" -> 0 [] p = "U16" -> 1 [] p = "F32" -> 2
PrecisionCount == Cardinality(Precisions)
ColorKey(color) == ChannelsIndex(color.channels) * PrecisionCount + PrecisionIndex(color.precision)

\* iter().find(): the first of the indices of the elements that satisfy the
\* test, 0 if there is none.
FindFirst(hits) ==
    IF hits = {} THEN 0 ELSE CHOOSE i \in hits : \A j \in hits : i <= j

\* ColorFormatSet::from_precision, the supported colors of a DirectDecoder
\* built by new_with_all_channels.
FromPrecision(precision) == {c \in ColorFormats : c.precision = precision}
SupportedColors(native_color) == FromPrecision(native_color.precision)

\* UncompressedDecoderSet::verify without its third check.
verify_without_precisions(decoders) ==
    IF Len(decoders) = 0 THEN "assert"
    ELSE IF \E i, j \in 1 .. Len(decoders) : i < j /\ ColorKey(decoders[i]) = ColorKey(decoders[j])
    THEN "Repeated color channel-precision combination"
    ELSE "ok"

\* UncompressedDecoderSet::verify: "ok" or the panic it raises. The decoders
\* are given by their native colors.
verify(decoders) ==
    IF Len(decoders) = 0 THEN "assert"
    ELSE IF \E i, j \in 1 .. Len(decoders) : i < j /\ ColorKey(decoders[i]) = ColorKey(decoders[j])
    THEN "Repeated color channel-precision combination"
    ELSE IF Cardinality({decoders[i].precision : i \in 1 .. Len(decoders)}) # PrecisionCount
    THEN "Missing color channel-precision combination"
    ELSE "ok"

\* DirectDecoderSet::new: "ok" or the assertion it fails.
DirectNew(decoders) ==
    IF Len(decoders) = 0 THEN "assert"
    ELSE IF UNION {SupportedColors(decoders[i]) : i \in 1 .. Len(decoders)} # ColorFormats
    THEN "All colors must be supported"
    ELSE "ok"

\* UncompressedDecoderSet::get_closest_process_fn: the decoder selected and the
\* branch that selected it.
get_closest_process_fn(decoders, color) ==
    LET exact == FindFirst({i \in 1 .. Len(decoders) : decoders[i] = color})
        same == FindFirst({i \in 1 .. Len(decoders) : decoders[i].precision = color.precision})
    IN  IF exact # 0 THEN [index |-> exact, via |-> "native"]
        ELSE IF same # 0 THEN [index |-> same, via |-> "precision"]
        ELSE [index |-> 0, via |-> "unreachable"]

\* DirectDecoderSet::get_decoder.
get_decoder(decoders, color) ==
    LET exact == FindFirst({i \in 1 .. Len(decoders) : decoders[i] = color})
        any == FindFirst({i \in 1 .. Len(decoders) : color \in SupportedColors(decoders[i])})
    IN  IF exact # 0 THEN [index |-> exact, via |-> "native"]
        ELSE IF any # 0 THEN [index |-> any, via |-> "supported"]
        ELSE [index |-> 0, via |-> "expect"]

NoColor == [channels |-> "none", precision |-> "none"]
NoDset == [pc |-> "idle", kind |-> "none", decoders |-> <<>>, optimized |-> NoColor,
           color |-> NoColor, args |-> "none", index |-> 0, via |-> "none"]

\* The lists a set is built from: up to MaxDecoders decoders with native
\* colors of two channel layouts.
MaxDecoders == 4
ListChannels == {"Rgb", "Rgba"}
DecoderLists ==
    UNION {[1 .. k -> {c \in ColorFormats : c.channels \in ListChannels}] : k \in 0 .. MaxDecoders}
SpecializedColors == {c \in ColorFormats : c.channels = "Rgba"}
\* What Args::new and the size of the image make of a call: the output
\* buffer has the wrong length, the image is empty, or neither.
ArgsCases == {"buffer", "empty", "pixels"}

SInit ==
    \E kind \in {"uncompressed", "list"}, decoders \in DecoderLists :
        dset = [NoDset EXCEPT !.pc = "new", !.kind = kind, !.decoders = decoders]

\* DecoderSet::new_uncompressed, with the verification of a debug build.
NewUncompressed ==
    /\ dset.pc = "new" /\ dset.kind = "uncompressed"
    /\ dset' = [dset EXCEPT !.pc = IF verify(dset.decoders) = "ok" THEN "ready" ELSE "panic",
                            !.via = verify(dset.decoders)]
    /\ UNCHANGED <<skip, elist, dvars, mvars, avars, kvars, evars, hvars>>

\* DecoderSet::new.
NewList ==
    /\ dset.pc = "new" /\ dset.kind = "list"
    /\ dset' = [dset EXCEPT !.pc = IF DirectNew(dset.decoders) = "ok" THEN "ready" ELSE "panic",
                            !.via = DirectNew(dset.decoders)]
    /\ UNCHANGED <<skip, elist, dvars, mvars, avars, kvars, evars, hvars>>

\* DecoderSet::add_specialized.
AddSpecialized ==
    /\ dset.pc = "ready" /\ dset.optimized = NoColor
    /\ \E color \in SpecializedColors : dset' = [dset EXCEPT !.optimized = color]
    /\ UNCHANGED <<skip, elist, dvars, mvars, avars, kvars, evars, hvars>>

\* DecoderSet::decode: Args::new, the early return of an empty image, the
\* specialized decoder, then the decoder of the list.
DecoderSetDecode ==
    /\ dset.pc = "ready"
    /\ \E color \in ColorFormats, args \in ArgsCases :
        LET chosen == IF dset.kind = "uncompressed"
                      THEN get_closest_process_fn(dset.decoders, color)
                      ELSE get_decoder(dset.decoders, color)
            outcome == IF args = "buffer" THEN [index |-> 0, via |-> "UnexpectedBufferSize"]
                       ELSE IF args = "empty" THEN [index |-> 0, via |-> "empty"]
                       ELSE IF dset.optimized # NoColor /\ dset.optimized = color
                       THEN [index |-> 0, via |-> "specialized"]
                       ELSE chosen
        IN  dset' = [dset EXCEPT !.pc = IF outcome.via \in {"unreachable", "expect"}
                                        THEN "panic" ELSE "done",
                                 !.color = color, !.args = args,
                                 !.index = outcome.index, !.via = outcome.via]
    /\ UNCHANGED <<skip, elist, dvars, mvars, avars, kvars, evars, hvars>>

SNext == NewUncompressed \/ NewList \/ AddSpecialized \/ DecoderSetDecode

----------------------------------------------------------------------------
(* util.rs: io_skip_exact *)

\* The width of the words of this component: u64 has SkipWordBits bits and
\* i64 one bit less.
SkipWordBits == 4
SkipU64Max == Pow2(SkipWordBits) - 1
SkipI64Max == Pow2(SkipWordBits - 1) - 1
SkipSaturatingAdd(a, b) == Min(a + b, SkipU64Max)

\* What an implementation of Seek does with a seek beyond the end of its
\* stream, which std::io::Seek leaves to the implementation: it moves there
\* (std::io::Cursor, std::fs::File), it stops at the end, or it refuses with
\* an error of its own.
SeekKinds == {"beyond", "clamp", "refuse"}

\* reader.seek(SeekFrom::Current(n)) with n >= 0: the reader after the call and
\* the value returned, -1 for an error.
SeekCurrent(reader, n) ==
    LET target == reader.pos + n
    IN  IF target > SkipU64Max THEN [reader |-> reader, value |-> -1]
        ELSE IF target <= reader.len \/ reader.kind = "beyond"
        THEN [reader |-> [reader EXCEPT !.pos = target], value |-> target]
        ELSE IF reader.kind = "clamp"
        THEN [reader |-> [reader EXCEPT !.pos = reader.len], value |-> reader.len]
        ELSE [reader |-> reader, value |-> -1]

\* io_skip_exact: the reader it leaves, the number of calls it made on the
\* reader and its result.
io_skip_exact(reader, count) ==
    IF count > SkipI64Max THEN [reader |-> reader, calls |-> 0, result |-> "UnexpectedEof"]
    ELSE IF count = 0 THEN [reader |-> reader, calls |-> 0, result |-> "Ok"]
    ELSE LET current == reader.pos
             sought == SeekCurrent(reader, count)
         IN  IF sought.value = -1
             THEN [reader |-> sought.reader, calls |-> 2, result |-> "ReaderError"]
             ELSE IF sought.value # SkipSaturatingAdd(current, count)
             THEN [reader |-> sought.reader, calls |-> 2, result |-> "UnexpectedEof"]
             ELSE [reader |-> sought.reader, calls |-> 2, result |-> "Ok"]

NoReader == [pos |-> 0, len |-> 0, kind |-> "none"]
NoSkip == [pc |-> "idle", before |-> NoReader, reader |-> NoReader, count |-> 0,
           calls |-> 0, result |-> "none"]

\* A reader somewhere in its stream, or beyond its end if it allows that.
SkipInit ==
    \E len \in 0 .. SkipU64Max, at \in 0 .. SkipU64Max, kind \in SeekKinds, count \in 0 .. SkipU64Max :
        /\ (at <= len \/ kind = "beyond")
        /\ skip = [NoSkip EXCEPT !.pc = "call", !.count = count,
                                 !.before = [pos |-> at, len |-> len, kind |-> kind],
                                 !.reader = [pos |-> at, len |-> len, kind |-> kind]]

IoSkipExact ==
    /\ skip.pc = "call"
    /\ LET out == io_skip_exact(skip.reader, skip.count)
       IN  skip' = [skip EXCEPT !.pc = "done", !.reader = out.reader,
                                !.calls = out.calls, !.result = out.result]
    /\ UNCHANGED <<dset, elist, dvars, mvars, avars, kvars, evars, hvars>>

----------------------------------------------------------------------------
(* encode/uncompressed.rs: the encoder lists *)

\* An UncompressedEncoder: the function it runs and its color_formats.
Encoder(kind, colors) == [kind |-> kind, colors |-> colors]
Color(channels, precision) == [channels |-> channels, precision |-> precision]
\* UncompressedEncoder::copy: ColorFormatSet::from_single(color)
CopyEncoder(color) == Encoder("copy_directly", {color})
\* color_convert!: ColorFormatSet::from_precision($target.precision)
ColorConvert(target) == Encoder("uncompressed_untyped", FromPrecision(target.precision))
\* the first encoder of B8G8R8_UNORM, B8G8R8A8_UNORM, B8G8R8X8_UNORM: ColorFormatSet::U8
SwapEncoder == Encoder("uncompressed_untyped", FromPrecision("U8"))
\* universal! and universal_subsample!: ColorFormatSet::ALL
Universal == Encoder("uncompressed_universal", ColorFormats)
UniversalSubsample == Encoder("uncompressed_universal_subsample", ColorFormats)

CopyConvertUniversal(color) == <<CopyEncoder(color), ColorConvert(color), Universal>>
ConvertUniversal(color) == <<ColorConvert(color), Universal>>

\* The lists of the module, by name.
EncoderListNames ==
    {"R8G8B8_UNORM", "B8G8R8_UNORM", "R8G8B8A8_UNORM", "R8G8B8A8_SNORM", "B8G8R8A8_UNORM",
     "B8G8R8X8_UNORM", "B5G6R5_UNORM", "B5G5R5A1_UNORM", "B4G4R4A4_UNORM", "A4B4G4R4_UNORM",
     "R8_UNORM", "R8_SNORM", "R8G8_UNORM", "R8G8_SNORM", "A8_UNORM", "R16_UNORM",
     "R16_SNORM", "R16G16_UNORM", "R16G16_SNORM", "R16G16B16A16_UNORM",
     "R16G16B16A16_SNORM", "R10G10B10A2_UNORM", "R11G11B10_FLOAT", "R9G9B9E5_SHAREDEXP",
     "R16_FLOAT", "R16G16_FLOAT", "R16G16B16A16_FLOAT", "R32_FLOAT", "R32G32_FLOAT",
     "R32G32B32_FLOAT", "R32G32B32A32_FLOAT", "R10G10B10_XR_BIAS_A2_UNORM", "AYUV", "Y410",
     "Y416", "R8G8_B8G8_UNORM", "G8R8_G8B8_UNORM", "YUY2", "UYVY", "Y210", "Y216",
     "R1_UNORM"}
EncoderList(name) ==
    CASE name = "R8G8B8_UNORM" -> CopyConvertUniversal(Color("Rgb", "U8"))
      [] name = "R8G8B8A8_UNORM" -> CopyConvertUniversal(Color("Rgba", "U8"))
      [] name = "R8_UNORM" -> CopyConvertUniversal(Color("Grayscale", "U8"))
      [] name = "A8_UNORM" -> CopyConvertUniversal(Color("Alpha", "U8"))
      [] name = "R16_UNORM" -> CopyConvertUniversal(Color("Grayscale", "U16"))
      [] name = "R16G16B16A16_UNORM" -> CopyConvertUniversal(Color("Rgba", "U16"))
      [] name = "R32_FLOAT" -> CopyConvertUniversal(Color("Grayscale", "F32"))
      [] name = "R32G32B32_FLOAT" -> CopyConvertUniversal(Color("Rgb", "F32"))
      [] name = "R32G32B32A32_FLOAT" -> CopyConvertUniversal(Color("Rgba", "F32"))
      [] name = "R8G8B8A8_SNORM" -> ConvertUniversal(Color("Rgba", "U8"))
      [] name = "R8_SNORM" -> ConvertUniversal(Color("Grayscale", "U8"))
      [] name = "R16_SNORM" -> ConvertUniversal(Color("Grayscale", "U16"))
      [] name = "R16G16B16A16_SNORM" -> ConvertUniversal(Color("Rgba", "U16"))
      [] name \in {"B8G8R8_UNORM", "B8G8R8A8_UNORM", "B8G8R8X8_UNORM"} ->
            <<SwapEncoder, Universal>>
      [] name \in {"R8G8_B8G8_UNORM", "G8R8_G8B8_UNORM", "YUY2", "UYVY", "Y210", "Y216",
                   "R1_UNORM"} -> <<UniversalSubsample>>
      [] OTHER -> <<Universal>>

\* Encoder::encode of a list with the encoders taken from the last to the first.
list_encode_last_match(encoders, color) ==
    LET hits == {i \in 1 .. Len(encoders) : color \in encoders[i].colors}
        last == IF hits = {} THEN 0 ELSE CHOOSE i \in hits : \A j \in hits : j <= i
    IN  IF last = 0 THEN [index |-> 0, result |-> "UnsupportedColorFormat"]
        ELSE [index |-> last, result |-> encoders[last].kind]
\* Encoder::encode of &[UncompressedEncoder], which calls Encoder::encode of the
\* first encoder whose colors contain the color: the index of the encoder and
\* the function that encoder runs, or UnsupportedColorFormat.
list_encode(encoders, color) ==
    LET first == FindFirst({i \in 1 .. Len(encoders) : color \in encoders[i].colors})
    IN  IF first = 0 THEN [index |-> 0, result |-> "UnsupportedColorFormat"]
        ELSE IF color \notin encoders[first].colors
        THEN [index |-> first, result |-> "UnsupportedColorFormat"]
        ELSE [index |-> first, result |-> encoders[first].kind]

NoElist == [pc |-> "idle", name |-> "none", encoders |-> <<>>, color |-> NoColor,
            index |-> 0, result |-> "none"]

LInit ==
    \E name \in EncoderListNames :
        elist = [NoElist EXCEPT !.pc = "list", !.name = name, !.encoders = EncoderList(name)]

\* One call of Encoder::encode on the list.
ListEncode ==
    /\ elist.pc = "list"
    /\ \E color \in ColorFormats :
        LET out == list_encode(elist.encoders, color)
        IN  elist' = [elist EXCEPT !.pc = "done", !.color = color,
                                   !.index = out.index, !.result = out.result]
    /\ UNCHANGED <<dset, skip, dvars, mvars, avars, kvars, evars, hvars>>

----------------------------------------------------------------------------
(* The components of decoder sets, io_skip_exact and encoder lists at rest *)

SIdle == dset = NoDset /\ skip = NoSkip /\ elist = NoElist

----------------------------------------------------------------------------
(* Specifications *)

\* One call of decode or decode_rect on a reader.
Init == DInit /\ MIdle /\ AIdle /\ KIdle /\ EIdle /\ HIdle /\ SIdle
Next == DNext
Spec == Init /\ [][Next]_vars

\* A sequence of reserve_bytes calls on one DecodeContext.
InitMem == MInit /\ pc = "idle" /\ call = NoCall /\ result = NoResult /\ pos = 0
           /\ reads = 0 /\ pixels_left = 0 /\ buf_pixels = 0 /\ outLeft = 0
           /\ refill = NoRefill /\ AIdle /\ KIdle /\ EIdle /\ HIdle /\ SIdle
NextMem == MNext
SpecMem == InitMem /\ [][NextMem]_vars

\* One call of an encoder of encode/uncompressed.rs on a writer.
InitEncode == EInit /\ DInit /\ MIdle /\ AIdle /\ KIdle /\ HIdle /\ SIdle
NextEncode == ENext
SpecEncode == InitEncode /\ [][NextEncode]_vars

\* One call that reads from a reader or writes to a writer: decode, or an
\* encoder of encode/uncompressed.rs.
InitIo == DInit /\ EInit /\ MIdle /\ AIdle /\ KIdle /\ HIdle /\ SIdle
NextIo == IoDecode \/ IoEncode
SpecIo == InitIo /\ [][NextIo]_vars

\* The conversion kernels applied to a bit pattern.
InitKernel == KInit /\ DInit /\ MIdle /\ AIdle /\ EIdle /\ HIdle /\ SIdle
NextKernel == KNext
SpecKernel == InitKernel /\ [][NextKernel]_vars

\* One call of from_header_with, or one DXGI -> FourCC -> DXGI conversion.
InitHeader == HInit /\ DInit /\ MIdle /\ AIdle /\ KIdle /\ EIdle /\ SIdle
NextHeader == HNext
SpecHeader == InitHeader /\ [][NextHeader]_vars

\* The interpolated colors of a pair of BC1 endpoints.
InitBc1 == BInit /\ DInit /\ MIdle /\ AIdle /\ EIdle /\ HIdle /\ SIdle
NextBc1 == BNext
SpecBc1 == InitBc1 /\ [][NextBc1]_vars

\* One run of the channel adapter.
InitAdapt == AInit /\ DInit /\ MIdle /\ KIdle /\ EIdle /\ HIdle /\ SIdle
NextAdapt == ANext
SpecAdapt == InitAdapt /\ [][NextAdapt]_vars

\* The construction of one DecoderSet and one call of its decode.
InitSelect == SInit /\ skip = NoSkip /\ elist = NoElist
              /\ DInit /\ MIdle /\ AIdle /\ KIdle /\ EIdle /\ HIdle
NextSelect == SNext
SpecSelect == InitSelect /\ [][NextSelect]_vars

\* One call of io_skip_exact on a reader.
InitSkip == SkipInit /\ dset = NoDset /\ elist = NoElist
            /\ DInit /\ MIdle /\ AIdle /\ KIdle /\ EIdle /\ HIdle
NextSkip == IoSkipExact
SpecSkip == InitSkip /\ [][NextSkip]_vars

\* One call of Encoder::encode on an encoder list of encode/uncompressed.rs.
InitList == LInit /\ dset = NoDset /\ skip = NoSkip
            /\ DInit /\ MIdle /\ AIdle /\ KIdle /\ EIdle /\ HIdle
NextList == ListEncode
SpecList == InitList /\ [][NextList]_vars

----------------------------------------------------------------------------
(* Claims about decode and decode_rect (specification Spec) *)

\* The product size.pixels x bytes_per_pixel of the call, not reduced to any width.
ExactBytes == call.size.width * call.size.height * BytesPerPixel(call.color)
Untouched == pos = 0 /\ reads = 0

\* C1: decode accepts the output buffer only if its length equals
\* size.pixels x color.bytes_per_pixel, the product taken without wrap-around
\* and saturating to usize::MAX; otherwise it returns UnexpectedBufferSize with
\* that product as expected; an unsupported color returns UnsupportedColorFormat;
\* both errors are returned before any byte is read.
C1_DecodeBufferSize ==
    (call.op = "decode" /\ pc # "idle") =>
        LET required == Min(ExactBytes, UsizeMax)
        IN  /\ ~Supports(call.fmt, call.color) =>
                 pc = "done" /\ result = Res("UnsupportedColorFormat", 0) /\ Untouched
            /\ (Supports(call.fmt, call.color) /\ call.outLen # required) =>
                 pc = "done" /\ result = Res("UnexpectedBufferSize", required) /\ Untouched
            /\ (Supports(call.fmt, call.color) /\ call.outLen = required) =>
                 result.kind \notin {"UnsupportedColorFormat", "UnexpectedBufferSize"}

\* C1 witness: a decode whose product exceeds usize::MAX was refused with the
\* saturated length, the reader untouched.
C1_Witness ==
    /\ call.op = "decode" /\ pc = "done"
    /\ ExactBytes > UsizeMax
    /\ result = Res("UnexpectedBufferSize", UsizeMax)
    /\ Untouched

\* C6: if decode or decode_rect returns an error of any kind, the reader is
\* where it was before the call.
C6_ReaderUnchangedOnError ==
    (pc = "done" /\ IsError(result)) => pos = 0

\* C7: whenever decode or decode_rect returns Ok, the reader is at the end of
\* the encoded image data of the surface.
C7_ReaderAtEndOnSuccess ==
    (pc = "done" /\ result = Ok) => pos = SurfaceLen

\* The checks of decode_rect in their order, with the required buffer length
\* given as req.
RectChecks(req) ==
    LET rect == call.rect
        inside == /\ rect.x + rect.width <= call.size.width
                  /\ rect.y + rect.height <= call.size.height
        minPitch == rect.width * BytesPerPixel(call.color)
    IN  /\ ~inside => pc = "done" /\ result = Res("RectOutOfBounds", 0) /\ Untouched
        /\ (inside /\ call.row_pitch < minPitch) =>
             pc = "done" /\ result = Res("RowPitchTooSmall", minPitch) /\ Untouched
        /\ (inside /\ call.row_pitch >= minPitch /\ call.outLen < req) =>
             pc = "done" /\ result = Res("RectBufferTooSmall", req) /\ Untouched
        /\ (inside /\ call.row_pitch >= minPitch /\ call.outLen >= req) =>
             result.kind \notin {"RectOutOfBounds", "RowPitchTooSmall", "RectBufferTooSmall"}

\* C8 as stated: decode_rect checks, in this order and before touching the
\* reader, that the rect lies inside the image (else RectOutOfBounds), that
\* row_pitch >= rect.width x bpp (else RowPitchTooSmall with that minimum) and
\* that output.len() >= row_pitch x rect.height (else RectBufferTooSmall with
\* required_minimum = row_pitch x rect.height).
C8_RectChecksExactProduct ==
    (call.op = "decode_rect" /\ pc # "idle" /\ Supports(call.fmt, call.color)) =>
        RectChecks(call.row_pitch * call.rect.height)

\* C8 amended: the same checks in the same order, the sums of the bounds check
\* taken without overflow, and required_minimum of RectBufferTooSmall being
\* row_pitch x rect.height saturated to usize::MAX.
C8_RectChecksSaturating ==
    (call.op = "decode_rect" /\ pc # "idle" /\ Supports(call.fmt, call.color)) =>
        RectChecks(Min(call.row_pitch * call.rect.height, UsizeMax))

\* C8 witness: a rect inside the image with a sufficient row pitch whose
\* row_pitch x rect.height exceeds usize::MAX was refused with the saturated
\* minimum, the reader untouched.
C8_Witness ==
    /\ call.op = "decode_rect" /\ pc = "done"
    /\ call.row_pitch * call.rect.height > UsizeMax
    /\ result = Res("RectBufferTooSmall", UsizeMax)
    /\ Untouched

\* C10: for_each_pixel over an output of P >= 1 pixels uses a read buffer of
\* min(P, 65536 / encoded pixel size) pixels, at most 64 KiB; every refill
\* reads min(buf_pixels, pixels_left) pixels and is paired with an output chunk
\* of the same pixel count; pixels_left never underflows and is 0 on Ok, when
\* exactly P x encoded pixel size bytes have been consumed, in order.
C10_ForEachPixel ==
    (call.op = "decode" /\ (pc = "loop" \/ reads > 0)) =>
        LET P == call.size.width * call.size.height
            s == call.fmt.encoded_size
        IN  /\ P >= 1
            /\ buf_pixels = Min(P, TARGET \div s)
            /\ buf_pixels * s <= TARGET
            /\ reads > 0 =>
                 /\ refill.read = Min(buf_pixels, refill.before)
                 /\ refill.chunk = refill.read
            /\ pixels_left <= P
            /\ ~IsError(result) => pos = (P - pixels_left) * s
            /\ result = Ok => pixels_left = 0 /\ pos = P * s

\* C10 witness: a decode of more pixels than the read buffer holds ended Ok
\* after several refills, the last one shorter than the buffer.
C10_Witness ==
    /\ call.op = "decode" /\ pc = "done" /\ result = Ok
    /\ reads >= 2
    /\ 0 < refill.read /\ refill.read < buf_pixels

----------------------------------------------------------------------------
(* Claims about the memory budget (specification SpecMem) *)

\* C9: over any sequence of reserve_bytes calls a request of b bytes succeeds
\* iff b <= memory_limit at that moment and then lowers memory_limit by exactly
\* b; a failing request returns MemoryLimitExceeded and leaves memory_limit
\* unchanged; memory_limit never increases or underflows, and the total of the
\* granted requests never exceeds the initial limit.
C9_ReserveBytes ==
    /\ memLog.res = "Ok" =>
         memLog.bytes <= memLog.before /\ memory_limit = memLog.before - memLog.bytes
    /\ memLog.res = "MemoryLimitExceeded" =>
         memLog.bytes > memLog.before /\ memory_limit = memLog.before
    /\ 0 <= memory_limit /\ memory_limit <= memLog.before
    /\ memLog.before <= memLog.init
    /\ memLog.granted + memory_limit = memLog.init

\* C9 witness: after some bytes were granted, a request larger than what is
\* left was refused.
C9_Witness ==
    /\ memLog.res = "MemoryLimitExceeded"
    /\ memLog.granted > 0
    /\ memory_limit > 0

----------------------------------------------------------------------------
(* Claims about the conversion kernels (specification SpecKernel) *)

\* v * t / d rounded to the nearest integer, halves upwards; the quotient and
\* the remainder of t by d are multiplied separately.
RoundRatio(v, t, d) == v * (t \div d) + ((2 * v * (t % d) + d) \div (2 * d))

\* C2: for every Unorm width n in {1, 2, 4, 5, 6, 10} and every n-bit x,
\* nN::n8(x) = round(x * 255 / (2^n - 1)) and nN::n16(x) =
\* round(x * 65535 / (2^n - 1)); the same holds for n16::n8 and n8::n16.
C2_UnormExact ==
    kout.op = "unorm" =>
        LET max_in == Pow2(kout.n) - 1
        IN  /\ kout.n # 8 => kout.n8 = RoundRatio(kin, 255, max_in)
            /\ kout.n # 16 => kout.n16 = RoundRatio(kin, 65535, max_in)

\* C2 witness: a 10-bit value whose exact quotients are not integers was
\* converted to both targets.
C2_Witness ==
    /\ kout.op = "unorm" /\ kout.n = 10 /\ kin = 513
    /\ kout.n8 = 128 /\ kout.n16 = 32864

\* The pattern of kout.n bits read as a signed integer.
SignedIn == IF kin >= Pow2(kout.n - 1) THEN kin - Pow2(kout.n) ELSE kin

\* C3: for every 8-bit (16-bit) pattern read as the signed xi, s8::n8 and
\* s8::n16 (s16::n8 and s16::n16) return
\* round(((max(xi, -MAX) / MAX + 1) / 2) * T_MAX): the patterns of -MAX-1 and
\* -MAX give 0, signed 0 gives T_MAX / 2 + 1 and +MAX gives T_MAX.
C3_SnormExact ==
    kout.op = "snorm" =>
        LET MAX == Pow2(kout.n - 1) - 1
            v == Max(SignedIn, -MAX) + MAX
        IN  /\ kout.n8 = RoundRatio(v, 255, 2 * MAX)
            /\ kout.n16 = RoundRatio(v, 65535, 2 * MAX)
            /\ SignedIn \in {-MAX - 1, -MAX} => kout.n8 = 0 /\ kout.n16 = 0
            /\ SignedIn = 0 => kout.n8 = 128 /\ kout.n16 = 32768
            /\ SignedIn = MAX => kout.n8 = 255 /\ kout.n16 = 65535

\* C3 witness: the byte 0x80 (-128) was converted to 0 by the 8-bit kernels.
C3_Witness ==
    /\ kout.op = "snorm" /\ kout.n = 8 /\ kin = 128
    /\ kout.n8 = 0 /\ kout.n16 = 0

\* C4: for every 16-bit pattern x, fp16::n8(x) = fp::n8(fp16::f32(x)) and
\* fp16::n16(x) = fp::n16(fp16::f32(x)); and for every x with the sign bit
\* clear and exponent below 31, bc6h_uf16::n8, n16 and f32 return what
\* fp16::n8, n16 and f32 return.
C4_FusedEqualsTwoStep ==
    /\ kout.op = "fp16" => kout.n8 = kout.via8 /\ kout.n16 = kout.via16
    /\ kout.op = "bc6h_uf16" =>
         /\ kout.n8 = fp16_n8(kin)
         /\ kout.n16 = fp16_n16(kin)
         /\ kout.f = fp16_f32(kin)

\* C4 witness: a denormal half (exponent 0, mantissa 512, i.e. 2^-15) went
\* through the fused kernels and the two-step path and gave 0 and 2.
C4_Witness ==
    /\ kout.op = "fp16" /\ kin = 512
    /\ kout.n8 = 0 /\ kout.n16 = 2
    /\ kout.f = [kind |-> "num", sign |-> 0, sig |-> 1, e |-> -15]

----------------------------------------------------------------------------
(* Claims about the channel adapter (specification SpecAdapt) *)

\* The mapping of C5 from a pixel of the channels `from` to one of `to`, with
\* one the value 1 of the precision.
C5_M(from, to, px, one) ==
    CASE from = to -> px
      [] from = "Grayscale" /\ to = "Rgb" -> <<px[1], px[1], px[1]>>
      [] from = "Grayscale" /\ to = "Rgba" -> <<px[1], px[1], px[1], one>>
      [] from = "Rgb" /\ to = "Grayscale" -> <<px[1]>>
      [] from = "Rgba" /\ to = "Grayscale" -> <<px[1]>>
      [] from = "Rgb" /\ to = "Rgba" -> <<px[1], px[2], px[3], one>>
      [] from = "Rgba" /\ to = "Rgb" -> <<px[1], px[2], px[3]>>
      [] from = "Rgba" /\ to = "Alpha" -> <<px[4]>>
      [] from = "Alpha" /\ to = "Rgba" -> <<0, 0, 0, px[1]>>
      [] from \in {"Grayscale", "Rgb"} /\ to = "Alpha" -> <<one>>
      [] from = "Alpha" /\ to = "Grayscale" -> <<0>>
      [] from = "Alpha" /\ to = "Rgb" -> <<0, 0, 0>>

C5_ConstantCase ==
    \/ adp.from \in {"Grayscale", "Rgb"} /\ adp.to = "Alpha"
    \/ adp.from = "Alpha" /\ adp.to \in {"Grayscale", "Rgb"}

\* C5: for every pair of channels, every precision and every pixel count
\* N >= 1, output pixel i of the channel adapter is M(from, to) of pixel i
\* produced by the process function (identity, written straight into the
\* output, when from = to); the two constant cases never invoke the process
\* function.
C5_AdapterMapping ==
    /\ adp.pc = "done" =>
         /\ Len(adp.decoded) = adp.pixels
         /\ \A i \in 1 .. adp.pixels :
              adp.decoded[i] = C5_M(adp.from, adp.to,
                                    ProcessPixel(adp.from, adp.precision, i),
                                    NormOne(adp.precision))
         /\ C5_ConstantCase => adp.calls = 0
         /\ adp.from = adp.to => adp.calls = 1
    /\ adp.pc = "map" =>
         \A i \in 1 .. adp.next :
           adp.decoded[i] = C5_M(adp.from, adp.to,
                                 ProcessPixel(adp.from, adp.precision, i),
                                 NormOne(adp.precision))

\* C5 witness: RGBA to Alpha of 130 pixels finished after three runs of the
\* process function, the last on a chunk of two pixels.
C5_Witness ==
    /\ adp.pc = "done" /\ adp.from = "Rgba" /\ adp.to = "Alpha"
    /\ adp.pixels = 130 /\ adp.calls = 3
    /\ adp.decoded[130] = <<Sample(adp.precision, 130, 4)>>

----------------------------------------------------------------------------
(* Claims about the tiled encoders (specification SpecEncode) *)

\* The number of elements in the first k writes.
RECURSIVE WrittenBefore(_, _)
WrittenBefore(writes, k) ==
    IF k = 0 THEN 0 ELSE WrittenBefore(writes, k - 1) + Len(writes[k])

\* C11: uncompressed_universal encodes an input of P pixels as consecutive
\* tiles of at most 512 pixels, with exactly one write per tile in input order
\* (ceil(P / 512) writes of P encoded pixels in total), and the concatenation
\* of the writes is the per-pixel encoding of the pixels in their order,
\* wherever the tile boundaries fall.
C11_UniversalTiles ==
    enc.op = "universal" =>
        /\ \A k \in 1 .. Len(enc.writes) :
             /\ 1 <= Len(enc.writes[k]) /\ Len(enc.writes[k]) <= 512
             /\ \A j \in 1 .. Len(enc.writes[k]) :
                  enc.writes[k][j] =
                    EncodePixel(SourcePixel(WrittenBefore(enc.writes, k - 1) + j - 1))
        /\ enc.result # "Io" =>
             /\ enc.calls = Len(enc.writes)
             /\ enc.calls = (enc.done + 511) \div 512
             /\ WrittenBefore(enc.writes, Len(enc.writes)) = enc.done
        /\ enc.result = "Ok" =>
             /\ enc.done = enc.pixels
             /\ enc.calls = (enc.pixels + 511) \div 512

\* C11 witness: 1025 pixels were encoded in three writes, the last of one pixel.
C11_Witness ==
    /\ enc.op = "universal" /\ enc.result = "Ok"
    /\ enc.pixels = 1025 /\ enc.calls = 3
    /\ Len(enc.writes[3]) = 1

\* Block k (from 1) of an image of rows of w pixels in blocks of bw pixels,
\* every row holding ceil(w / bw) blocks: the positions of its pixels, the
\* last pixel of the row repeated beyond the end of the row.
RowBlock(k, w, bw) ==
    LET per_row == (w + bw - 1) \div bw
        r == (k - 1) \div per_row
        b == (k - 1) % per_row
    IN  [t \in 1 .. bw |-> r * w + Min(b * bw + t - 1, w - 1)]

\* C12: the sub-sampled encoders (block width 2 or 8) write every row of width
\* w >= 1 as exactly ceil(w / block_width) blocks; no block holds pixels of two
\* rows; a partial block occurs only at the end of a row and is completed by
\* repeating the last pixel of the row; the encoded buffer of 256 entries is
\* never indexed out of range.
C12_SubsampleRows ==
    enc.op = "subsample" =>
        LET per_row == (enc.width + enc.block_width - 1) \div enc.block_width
        IN  /\ \A k \in 1 .. Len(enc.writes) :
                 \A j \in 1 .. Len(enc.writes[k]) :
                   enc.writes[k][j] =
                     RowBlock(WrittenBefore(enc.writes, k - 1) + j, enc.width,
                              enc.block_width)
            /\ (enc.result # "Io" /\ enc.done = 0) =>
                 WrittenBefore(enc.writes, Len(enc.writes)) = enc.row * per_row
            /\ enc.result = "Ok" => enc.row * enc.width = enc.pixels
            /\ enc.result # "panic"
            /\ enc.maxLen <= 256

\* C12 witness: two rows of 513 pixels in blocks of 8 were written, the last
\* block of a row holding its last pixel eight times.
C12_Witness ==
    /\ enc.op = "subsample" /\ enc.result = "Ok"
    /\ enc.width = 513 /\ enc.pixels = 1026 /\ enc.block_width = 8
    /\ enc.calls = 4
    /\ enc.writes[2] = << [t \in 1 .. 8 |-> 512] >>
    /\ enc.writes[4] = << [t \in 1 .. 8 |-> 1025] >>

----------------------------------------------------------------------------
(* Claims about failing readers and writers (specification SpecIo) *)

\* What the writer holds, write by write, stays as it is: a step only appends.
WritesKept ==
    /\ Len(enc'.writes) >= Len(enc.writes)
    /\ SubSeq(enc'.writes, 1, Len(enc.writes)) = enc.writes

\* C13: when a read (decoding) or a write (encoding) returns an error, the
\* call returns that error at once: after the first failing I/O call no
\* further read or write is issued, and the tiles processed before stay
\* written.
C13_ErrorEndsCall ==
    [][/\ result.kind = "Io" => reads' = reads /\ pos' = pos /\ result' = result
       /\ enc.result = "Io" => enc'.calls = enc.calls /\ enc'.result = "Io"
       /\ (enc'.result = "Io" /\ enc.result # "Io") =>
             enc'.calls = enc.failAt /\ enc'.pc = "done"
       /\ (result'.kind = "Io" /\ result.kind # "Io") => pc' = "done"
       /\ outLeft' <= outLeft \/ pc = "idle"
       /\ WritesKept]_vars

\* C13 witness: the third write of an encode call failed after two tiles were
\* written, and the call returned.
C13_Witness ==
    /\ enc.result = "Io" /\ enc.pc = "done"
    /\ enc.calls = 3 /\ Len(enc.writes) = 2

----------------------------------------------------------------------------
(* Claims about the interpolated colors of BC1 (specification SpecBc1) *)

\* C14 as stated: for the endpoints c0 = 0x0000 and c1 = 0xFFFF the mid color
\* computed by B5G6R5::mid_color_rgb8 is (127, 127, 127).
C14_MidOfBlackWhite127 ==
    (kout.op = "bc1" /\ kin = 0 /\ kout.n = 65535) => kout.mid = <<127, 127, 127>>

\* C14 amended: for the endpoints c0 = 0x0000 and c1 = 0xFFFF the mid color
\* computed by B5G6R5::mid_color_rgb8 is (128, 128, 128), the exact value
\* 127.5 being rounded up.
C14_MidOfBlackWhite128 ==
    (kout.op = "bc1" /\ kin = 0 /\ kout.n = 65535) => kout.mid = <<128, 128, 128>>

\* C14 witness: the colors of the endpoints 0x0000 and 0xFFFF were computed.
C14_Witness ==
    /\ kout.op = "bc1" /\ kin = 0 /\ kout.n = 65535
    /\ kout.mid[1] = (31 * 1053 + 125) \div 256

\* C15: for all 5-bit channel values a, b (6-bit for green)
\* one_third_color_rgb8 returns the 8-bit value nearest to (2a + b) / 3
\* rescaled from [0, 31] (from [0, 63]) to [0, 255] and mid_color_rgb8 the
\* 8-bit value nearest to (a + b) / 2 rescaled likewise, exact ties rounded
\* up; for 5-bit channels they are ((2a + b) * 351 + 61) >> 7 and
\* ((a + b) * 1053 + 125) >> 8, which do not overflow the u16 intermediate.
C15_InterpolatedNearest ==
    kout.op = "bc1" =>
        LET c0 == B5G6R5_from_u16(kin)
            c1 == B5G6R5_from_u16(kout.n)
        IN  /\ kout.third = << RoundRatio(2 * c0.r5 + c1.r5, 255, 93),
                               RoundRatio(2 * c0.g6 + c1.g6, 255, 189),
                               RoundRatio(2 * c0.b5 + c1.b5, 255, 93) >>
            /\ kout.mid = << RoundRatio(c0.r5 + c1.r5, 255, 62),
                             RoundRatio(c0.g6 + c1.g6, 255, 126),
                             RoundRatio(c0.b5 + c1.b5, 255, 62) >>
            /\ kout.third[1] = ((2 * c0.r5 + c1.r5) * 351 + 61) \div 128
            /\ kout.mid[1] = ((c0.r5 + c1.r5) * 1053 + 125) \div 256
            /\ (2 * c0.r5 + c1.r5) * 351 + 61 < 65536
            /\ (c0.r5 + c1.r5) * 1053 + 125 < 65536

\* C15 witness: green channels 10 and 11 have the exact mid 42.5, returned
\* as 43.
C15_Witness ==
    /\ kout.op = "bc1"
    /\ B5G6R5_from_u16(kin).g6 = 10 /\ B5G6R5_from_u16(kout.n).g6 = 11
    /\ kout.mid[2] = 43

----------------------------------------------------------------------------
(* Claims about format detection and headers (specification SpecHeader) *)

\* A call of from_header_with has returned.
HeaderCallDone == hdr.pc = "done" /\ hdr.result # "none"

\* C16: for every DXGI format D for which dxgi_to_four_cc(D) is Some(f),
\* four_cc_to_dxgi(f) is Some(D).
C16_FourCcRoundTrip ==
    (hdr.pc = "done" /\ hdr.four_cc # NoFourCC) => hdr.back = hdr.input.dxgi_format

\* C16 witness: R16_FLOAT went to the D3DFORMAT constant 111 and back.
C16_Witness ==
    /\ hdr.pc = "done" /\ hdr.input.dxgi_format = "R16_FLOAT"
    /\ hdr.four_cc = 111 /\ hdr.back = "R16_FLOAT"

\* C17 as stated: a header with a DX10 extension whose alpha_mode is
\* Premultiplied and whose DXGI format is BC2_UNORM or BC3_UNORM resolves to
\* BC2_UNORM_PREMULTIPLIED_ALPHA or BC3_UNORM_PREMULTIPLIED_ALPHA.
C17_PremultipliedRemapped ==
    (/\ HeaderCallDone /\ hdr.result = "Ok"
     /\ hdr.input.dxt10 /\ hdr.input.alpha_mode = "Premultiplied"
     /\ hdr.input.dxgi_format \in {"BC2_UNORM", "BC3_UNORM"})
        => hdr.format = special_cases(hdr.input)

\* C18 as stated: in permissive mode a DX10 header declaring array_size = 0
\* has array_size = 1 in the decoder that is returned.
C18_ZeroArrayAlwaysRepaired ==
    (/\ HeaderCallDone /\ hdr.result = "Ok" /\ hdr.options.permissive
     /\ hdr.input.dxt10 /\ hdr.input.array_size = 0)
        => hdr.header.array_size = 1

\* C18 amended: in permissive mode a DX10 header declaring array_size = 0
\* has array_size = 1 in the decoder that is returned exactly when
\* options.file_len is given and leaves a data section of more than 0 bytes
\* after the magic bytes and the headers; with no file_len, or with an empty
\* data section, the decoder is returned with array_size = 0 and a layout of
\* length 0.  Without permissive mode the header is returned as given.
C18_ZeroArrayRepairedWithFileLen ==
    (HeaderCallDone /\ hdr.result = "Ok") =>
        /\ (hdr.options.permissive /\ hdr.input.dxt10 /\ hdr.input.array_size = 0) =>
              /\ hdr.header.array_size \in {0, 1}
              /\ hdr.header.array_size = 1
                    <=> (/\ hdr.options.file_len # NoFileLen
                         /\ hdr.options.file_len > MagicLen + HeaderSize + HeaderDxt10Size)
              /\ hdr.header.array_size = 0 => hdr.data_len = 0
        /\ ~hdr.options.permissive => hdr.header = hdr.input

\* C18 witness: a header with array_size = 0 and a file of one texture was
\* repaired.
C18_Witness ==
    /\ HeaderCallDone /\ hdr.result = "Ok" /\ hdr.options.permissive
    /\ hdr.input.dxt10 /\ hdr.input.array_size = 0
    /\ hdr.header.array_size = 1
    /\ hdr.data_len = TextureLen(1)
    /\ hdr.options.file_len = MagicLen + HeaderSize + HeaderDxt10Size + hdr.data_len

\* C19: from_header_with returns ArraySizeTooBig(array_size) exactly when the
\* header has a DX10 extension whose array_size is greater than
\* options.max_array_size (4096 by default); the check runs before format
\* detection and layout computation, and the header is not modified when it
\* fails.
C19_ArraySizeLimit ==
    /\ NoOptions.max_array_size = 4096
    /\ HeaderCallDone =>
        /\ hdr.result = "ArraySizeTooBig"
              <=> (hdr.input.dxt10 /\ hdr.input.array_size > hdr.options.max_array_size)
        /\ hdr.steps[1] = "array_size"
        /\ hdr.result = "ArraySizeTooBig" =>
              /\ hdr.value = hdr.input.array_size
              /\ hdr.steps = <<"array_size">>
              /\ hdr.header = hdr.input
              /\ hdr.format = NoneFormat

\* C19 witness: a header over the default limit whose format is unsupported
\* was rejected for its array_size.
C19_Witness ==
    /\ HeaderCallDone /\ hdr.result = "ArraySizeTooBig" /\ hdr.value = 4097
    /\ hdr.options.max_array_size = DefaultMaxArraySize
    /\ hdr.input.dxgi_format = "UNKNOWN"
    /\ from_header(hdr.input).kind = "UnsupportedDxgiFormat"

----------------------------------------------------------------------------
(* Claims about the totality of the kernels (specification SpecKernel) *)

\* The kernels of C20.
IntegerKernels ==
    {"unorm", "snorm", "xr10", "fp16", "fp11", "fp10", "b5g6r5", "b5g5r5a1"}

\* C20: every integer conversion kernel is total on its encoded width: for
\* every bit pattern of that width (n bits for nN, 8 and 16 for s8 and s16,
\* 10 for xr10, 16, 11 and 10 for fp16, fp11 and fp10, every 16-bit word split
\* by B5G6R5::from_u16 and B5G5R5A1::from_u16) it returns a value, no range
\* assertion fails and no u8, u16, i16 or u32 intermediate wraps around.
C20_KernelsTotal ==
    kout.op \in IntegerKernels =>
        /\ kout.fails = {}
        /\ kout.n8 \in 0 .. 255
        /\ kout.n16 \in 0 .. 65535
        /\ \A i \in DOMAIN kout.color8 : kout.color8[i] \in 0 .. 255
        /\ kout.op = "b5g6r5" =>
              kin = kout.parts[1] * 2048 + kout.parts[2] * 32 + kout.parts[3]
        /\ kout.op = "b5g5r5a1" =>
              kin = kout.parts[4] * 32768 + kout.parts[1] * 1024
                    + kout.parts[2] * 32 + kout.parts[3]

\* C20 witness: the largest 10-bit value went through xr10, whose u32
\* intermediate is then 4294967295.
C20_Witness ==
    /\ kout.op = "xr10" /\ kin = 1023
    /\ kout.n8 = 255 /\ kout.n16 = 65535
    /\ U32Add(U32Mul(xr10_clamped(kin), 8421376), 65535) = U32(65535, 65535, FALSE)

----------------------------------------------------------------------------
(* Claims about special values of the fused FP16 kernels (SpecKernel) *)

\* C21: fp16::n8 and fp16::n16 map +Inf (0x7C00) to the maximum (255 and
\* 65535), every NaN pattern (exponent 31, mantissa not 0) to 0, and every
\* pattern with the sign bit set, -Inf (0xFC00) included, to 0.
C21_Fp16SpecialValues ==
    kout.op = "fp16" =>
        /\ kin = 31744 => (kout.n8 = 255 /\ kout.n16 = 65535)
        /\ (Fp16Exp(kin) = 31 /\ Fp16Mant(kin) # 0) => (kout.n8 = 0 /\ kout.n16 = 0)
        /\ kin >= 32768 => (kout.n8 = 0 /\ kout.n16 = 0)

\* C21 witness: -Inf (0xFC00) went through the fused kernels.
C21_Witness ==
    /\ kout.op = "fp16" /\ kin = 64512
    /\ Fp16Sign(kin) /\ Fp16Exp(kin) = 31 /\ Fp16Mant(kin) = 0
    /\ kout.n8 = 0 /\ kout.n16 = 0

----------------------------------------------------------------------------
(* Claims about the exact float kernels (specification SpecKernel) *)

\* C22: for every Unorm width n in {1, 2, 4, 5, 6, 8, 10, 16} and every x in
\* [0, 2^n - 1] the exact float kernel (nN::f32_exact; n1::f32 and n2::f32
\* for n = 1, 2) returns the IEEE 754 single precision round-to-nearest value
\* of x / (2^n - 1).
C22_F32Exact ==
    kout.op = "unorm" => kout.f = F32Div(kin, Pow2(kout.n) - 1)

\* C22 witness: 3 / 15, which x as f32 * (1.0 / 15.0) misses by one unit in
\* the last place, came out of n4::f32_exact as the nearest f32.
C22_Witness ==
    /\ kout.op = "unorm" /\ kout.n = 4 /\ kin = 3
    /\ kout.f = Canon(0, 13421773, -26)
    /\ unorm_f32(4, 3) # kout.f

----------------------------------------------------------------------------
(* Claims about the decoder sets (specification SpecSelect) *)

\* DecoderSet::decode has returned or panicked.
DecodeCalled == dset.pc \in {"done", "panic"} /\ dset.color # NoColor

\* C23: DecoderSet::decode calls the specialized decoder if and only if one
\* is registered and its ColorFormat equals the requested one, and only after
\* the buffer-size check and the early return of an empty image; otherwise an
\* uncompressed set selects the decoder whose native color equals the request
\* if there is one and else one of equal precision, so the precision of the
\* selected decoder always equals the requested precision, and neither
\* unreachable! nor expect is reached.
C23_DecoderSelection ==
    DecodeCalled =>
        /\ dset.pc = "done"
        /\ dset.via \notin {"unreachable", "expect"}
        /\ dset.via = "specialized" <=>
              (dset.args = "pixels" /\ dset.optimized # NoColor /\ dset.optimized = dset.color)
        /\ dset.args = "buffer" <=> dset.via = "UnexpectedBufferSize"
        /\ dset.args = "empty" <=> dset.via = "empty"
        /\ (dset.args = "pixels" /\ dset.via # "specialized") =>
              /\ dset.index \in 1 .. Len(dset.decoders)
              /\ dset.decoders[dset.index].precision = dset.color.precision
              /\ dset.kind = "uncompressed" =>
                    IF \E i \in 1 .. Len(dset.decoders) : dset.decoders[i] = dset.color
                    THEN dset.decoders[dset.index] = dset.color /\ dset.via = "native"
                    ELSE dset.via = "precision"

\* C23 witness: an uncompressed set with a specialized Rgba U8 decoder was
\* asked for Grayscale F32 and selected its Rgb F32 decoder by precision.
C23_Witness ==
    /\ DecodeCalled /\ dset.kind = "uncompressed" /\ dset.args = "pixels"
    /\ dset.optimized = [channels |-> "Rgba", precision |-> "U8"]
    /\ dset.color = [channels |-> "Grayscale", precision |-> "F32"]
    /\ dset.via = "precision"
    /\ dset.decoders[dset.index] = [channels |-> "Rgb", precision |-> "F32"]

\* C24 as stated: UncompressedDecoderSet::new accepts a list only if it has
\* exactly three entries, exactly one per Precision.
C24_ExactlyOnePerPrecision ==
    (dset.kind = "uncompressed" /\ dset.pc \in {"ready", "done"}) =>
        /\ Len(dset.decoders) = 3
        /\ \A p \in Precisions :
              Cardinality({i \in 1 .. Len(dset.decoders) : dset.decoders[i].precision = p}) = 1

----------------------------------------------------------------------------
(* Claims about io_skip_exact (specification SpecSkip) *)

\* The parts of C25 other than the end of the file: the reader never moves
\* backward, Ok means the position advanced by exactly count, the reader is
\* not called for count = 0, and a count above i64::MAX fails with
\* UnexpectedEof without a call on the reader.
SkipForwardExact ==
    skip.pc = "done" =>
        /\ skip.reader.pos >= skip.before.pos
        /\ skip.result = "Ok" => skip.reader.pos = skip.before.pos + skip.count
        /\ skip.count = 0 => (skip.calls = 0 /\ skip.result = "Ok")
        /\ skip.count > SkipI64Max =>
              (skip.result = "UnexpectedEof" /\ skip.calls = 0 /\ skip.reader = skip.before)

\* C25 as stated: io_skip_exact only moves the reader forward, returns Ok
\* only if the reader advanced by exactly count bytes, does not call the
\* reader when count = 0, fails with UnexpectedEof without touching the reader
\* when count > i64::MAX, and returns an error if the skip would seek past
\* the end of the file.
C25_SkipExact ==
    /\ SkipForwardExact
    /\ (skip.pc = "done" /\ skip.count > 0
            /\ skip.before.pos + skip.count > skip.before.len) => skip.result # "Ok"

----------------------------------------------------------------------------
(* Claims about the fused kernels of the small floats (specification SpecKernel) *)

FusedKernels == {"fp11", "fp10", "xr10"}

\* C26: for every bit pattern of the encoded width (11 bits for FP11, 10 bits
\* for FP10 and XR10, every exponent and mantissa for R9G9B9E5, with
\* denormals, Inf and NaN patterns) the fused kernels K::n8 and K::n16 return
\* what fp::n8 and fp::n16 return for K::f32.
C26_FusedEqualsTwoStep ==
    /\ kout.op \in FusedKernels => (kout.n8 = kout.via8 /\ kout.n16 = kout.via16)
    /\ kout.op = "rgb9995f" =>
          (kout.color8 = kout.via_color8 /\ kout.color16 = kout.via_color16)

\* C26 witness: the XR10 pattern 385, which is 1 / 510 as a float and half a
\* step of u8, came out as 1 on both paths, and as 129 of 65535.
C26_Witness ==
    /\ kout.op = "xr10" /\ kin = 385
    /\ kout.f = F32Div(1, 510)
    /\ kout.n8 = 1 /\ kout.via8 = 1 /\ kout.n16 = 129 /\ kout.via16 = 129

----------------------------------------------------------------------------
(* Claims about the buffer of uncompressed_untyped (specification SpecEncode) *)

\* C27 as stated: uncompressed_untyped never takes a slice of its encoded
\* buffer longer than the 4096 bytes of the buffer: in every chunk of every
\* input, for every encoder built on it and every color that encoder accepts,
\* (pixels of the chunk) x (encoded bytes per pixel) <= 4096.
C27_UntypedWithinBuffer ==
    enc.op = "untyped" => (enc.result # "panic" /\ enc.maxLen <= RawBufferBytes)

----------------------------------------------------------------------------
(* Claims about the encoder lists (specification SpecList) *)

\* C30: for every uncompressed encoder list and each of the 12 color formats,
\* encoding through the list never returns UnsupportedColorFormat: the list
\* holds an encoder whose colors contain the color, and the encoder used is
\* the first of the list whose colors contain it; a list of a direct copy, a
\* channel converter and a universal encoder (such as R8G8B8A8_UNORM) uses
\* the copy for its own color only, the converter for the other colors of
\* that precision and the universal encoder for the other precisions.
C30_FirstEncoderThatSupports ==
    elist.pc = "done" =>
        /\ elist.result # "UnsupportedColorFormat"
        /\ elist.index \in 1 .. Len(elist.encoders)
        /\ elist.color \in elist.encoders[elist.index].colors
        /\ \A j \in 1 .. elist.index - 1 : elist.color \notin elist.encoders[j].colors
        /\ elist.result = elist.encoders[elist.index].kind
        /\ elist.name = "R8G8B8A8_UNORM" =>
              elist.index = IF elist.color = Color("Rgba", "U8") THEN 1
                            ELSE IF elist.color.precision = "U8" THEN 2 ELSE 3

\* C30 witness: R8G8B8A8_UNORM encoded Grayscale U8 with its channel
\* converter, the second encoder of the list.
C30_Witness ==
    /\ elist.pc = "done" /\ elist.name = "R8G8B8A8_UNORM"
    /\ elist.color = Color("Grayscale", "U8")
    /\ elist.index = 2 /\ elist.result = "uncompressed_untyped"

----------------------------------------------------------------------------
(* Claims about DecodeContext::alloc (specification SpecMem) *)

Allocating == memLog.op \in {"alloc", "alloc_capacity"}

\* alloc and alloc_capacity return Ok only if len x size, not reduced to any
\* width, is within the budget, and then the budget is charged that product.
AllocOkChargesProduct ==
    (Allocating /\ memLog.res = "Ok") =>
        /\ memLog.len * memLog.size <= memLog.before
        /\ memory_limit = memLog.before - memLog.len * memLog.size

\* C28 as stated: alloc(len) and alloc_capacity(len) for an element size s
\* succeed only if the product len x s is within the remaining budget and then
\* charge exactly len x s bytes, and the product len * size_of::<T>() never
\* wraps around into a smaller charge.
C28_AllocChargesTrueProduct ==
    /\ AllocOkChargesProduct
    /\ Allocating => (memLog.before - memory_limit) \in {0, memLog.len * memLog.size}

----------------------------------------------------------------------------
(* Claims about the repairs of the header (specification SpecHeader) *)

\* create_layout_and_fix_header has run and from_header_with returned its
\* header and layout.
RepairCalled == HeaderCallDone /\ hdr.result = "Ok" /\ hdr.options.permissive
ExpectedLen == get_expected_data_len(hdr.input, hdr.options)
\* The header the mipmap guesses start from, and the guesses in their order.
GuessBase == [hdr.input EXCEPT !.array_size = IF hdr.input.dxt10 /\ @ = 0 THEN 1 ELSE @]
MipmapGuesses ==
    <<1, BitLen(Max(HeaderWidth, HeaderHeight)), hdr.input.mipmap_count - 1,
      hdr.input.mipmap_count + 1>>

\* What the repairs may change, and when the header is left as it is.
RepairFrame ==
    /\ hdr.header = [hdr.input EXCEPT !.array_size = hdr.header.array_size,
                                      !.mipmap_count = hdr.header.mipmap_count]
    /\ hdr.header.array_size # hdr.input.array_size =>
          /\ hdr.input.dxt10 /\ ExpectedLen # NoFileLen /\ hdr.header.array_size = 1
          /\ \/ hdr.input.array_size = 0 /\ ExpectedLen > 0
             \/ /\ hdr.input.array_size = 6 /\ hdr.input.cube
                /\ LayoutDataLen(hdr.header) = ExpectedLen
    /\ hdr.header.mipmap_count # hdr.input.mipmap_count =>
          /\ ExpectedLen # NoFileLen /\ LayoutDataLen(hdr.header) = ExpectedLen
          /\ \E i \in 1 .. 4 :
                /\ MipmapGuesses[i] = hdr.header.mipmap_count
                /\ \A j \in 1 .. i - 1 :
                      \/ MipmapGuesses[j] = 0
                      \/ LayoutDataLen([GuessBase EXCEPT !.mipmap_count = MipmapGuesses[j]])
                            # ExpectedLen
    /\ (ExpectedLen = NoFileLen \/ LayoutDataLen(hdr.input) = ExpectedLen) =>
          hdr.header = hdr.input
    /\ LayoutDataLen(hdr.header) # ExpectedLen =>
          /\ hdr.header.mipmap_count = hdr.input.mipmap_count
          /\ hdr.input.array_size = 6 => hdr.header.array_size = 6

\* C29 as stated: create_layout_and_fix_header changes the header only by
\* array_size 0 -> 1 (the expected data length known and > 0), by a cube map's
\* array_size 6 -> 1 or by a mipmap_count guess, tried in the order [1, full
\* chain, mipmap - 1, mipmap + 1] and adopted only if the length of the layout
\* equals the expected length; without file_len, with a file_len below the
\* size of the headers, or when the layout matches, the header is unchanged;
\* if no repair matches, the layout of the original header is returned and
\* mipmap_count and the array_size of a cube map are unchanged.
C29_OriginalLayoutReturned ==
    RepairCalled =>
        /\ RepairFrame
        /\ LayoutDataLen(hdr.header) # ExpectedLen =>
              hdr.data_len = LayoutDataLen(hdr.input)

\* C29, amended: as above, but if no repair matches, the layout returned is
\* the layout of the header as it is left, which is the original header or
\* the original header with array_size 0 -> 1.
C29_RepairFrame ==
    RepairCalled =>
        /\ RepairFrame
        /\ hdr.data_len = LayoutDataLen(hdr.header)
        /\ LayoutDataLen(hdr.header) # ExpectedLen =>
              hdr.header = [hdr.input EXCEPT !.array_size = hdr.header.array_size]

\* C29 witness: a header with array_size = 0 and a file of two textures: no
\* repair has the length of the file, array_size is left at 1 and the layout
\* returned is the one of a single texture, not the empty one.
C29_Witness ==
    /\ RepairCalled /\ hdr.input.dxt10 /\ hdr.input.array_size = 0
    /\ hdr.input.mipmap_count = 1 /\ ~hdr.input.cube
    /\ ExpectedLen = 2 * TextureLen(1)
    /\ hdr.header = [hdr.input EXCEPT !.array_size = 1]
    /\ hdr.data_len = TextureLen(1) /\ LayoutDataLen(hdr.input) = 0

====
